---- MODULE Spec2Model ----
(***************************************************************************)
(* Order-management pipeline of jbendercb/java-legacyshop.                 *)
(*                                                                         *)
(* The repository holds several re-implementations of the same service.    *)
(* Each one is modelled by its own actions over the same tables            *)
(* (products, customers, orders, payments, idempotency_records,            *)
(* audit_logs) and has its own specification:                              *)
(*   SpecLA  legacyshop-api        (SQLAlchemy session, SQLite)            *)
(*   SpecLACrash  the same, the process may die between two commits       *)
(*   SpecFR  fastapi-rewrite       (module-level dictionaries)             *)
(*   SpecFL  fastapi_legacyshop    (SQLAlchemy session)                    *)
(* Money is kept in whole cents.  The tables hold COMMITTED rows; what a   *)
(* handler has flushed but not committed lives in the value its operator   *)
(* works on and is dropped when the handler raises.                        *)
(* resp is the response of the request that has just ended, with what the *)
(* request did (gateway calls, attempts, rows written); auth is the        *)
(* request that is waiting for the payment gateway, if any.                *)
(***************************************************************************)
EXTENDS Integers, Sequences, FiniteSets, TLC

VARIABLES products, customers, orders, payments, idempotency_records,
          audit_logs, gateway, auth, resp

vars == <<products, customers, orders, payments, idempotency_records,
          audit_logs, gateway, auth, resp>>

(***************************************************************************)
(* Bounds of the model.                                                    *)
(***************************************************************************)
MaxOrders == 2
MaxAuthorizations == 2
MaxQty == 2
InitStock == 2

(***************************************************************************)
(* Program constants.                                                      *)
(***************************************************************************)
tier1_threshold == 5000
tier1_discount == 5
tier2_threshold == 10000
tier2_discount == 10
tier3_threshold == 20000
tier3_discount == 15
payment_max_attempts == 2
MinTotal == 1

NoKey == "None"
Keys == {"k1"}
Emails == {"a@x.com"}

(***************************************************************************)
(* Shared helpers.                                                         *)
(***************************************************************************)
RECURSIVE SumSeq(_)
SumSeq(s) == IF s = <<>> THEN 0 ELSE Head(s) + SumSeq(Tail(s))

\* Decimal.quantize(Decimal("0.01"), ROUND_HALF_UP) of cents * pct / 100
QuantizeHalfUp(cents, pct) == (cents * pct + 50) \div 100

NoBody == [id |-> 0, status |-> "NONE", subtotal |-> 0, discountAmount |-> 0,
           total |-> 0, idempotencyKey |-> NoKey]

Merge(r, f) == [k \in DOMAIN r |-> IF k \in DOMAIN f THEN f[k] ELSE r[k]]

\* What the request that has just completed returns, with what it did on the way:
\* calls = gateway calls made, attempts = runs of the retried function,
\* answers = what the gateway answered, pre_status = the order's status when
\* the request started, payment_writes = Payment rows inserted or updated,
\* partial = line items the session had processed when create_order ended,
\* pre_payment = the status of the order's Payment when the request started,
\* seen_orders = the orders committed when the request made its first read.
NoResponse == [op |-> "none", key |-> NoKey, request |-> <<>>, order_id |-> 0,
               status |-> 0, error |-> "none", detail |-> "none",
               retryable |-> FALSE,
               body |-> NoBody, calls |-> 0, attempts |-> 0, answers |-> <<>>,
               pre_status |-> "NONE", pre_payment |-> "NONE",
               payment_writes |-> 0, partial |-> 0, seen_orders |-> 0]

Response(f) == Merge(NoResponse, f)

\* The response has gone out to the client: the next request may complete.
Delivered == resp.op = "none"

\* The router's return: the response is sent and forgotten.
send_response ==
    /\ resp.op # "none"
    /\ resp' = NoResponse
    /\ UNCHANGED <<products, customers, orders, payments, idempotency_records,
                   audit_logs, gateway, auth>>

\* The authorize-payment request that is awaiting the gateway or its backoff,
\* or (pc = "authorized") running between two of its commits.
AuthIdle == [pc |-> "idle", order_id |-> 0, payment |-> 0, attempt |-> 0,
             calls |-> 0, answers |-> <<>>, pre_status |-> "NONE",
             pre_payment |-> "NONE", payment_writes |-> 0, retryable |-> FALSE]

\* The external gateway: the authorizations it holds, the ids it voided.
NoGateway == [next |-> 1, held |-> {}, voided |-> {}]

(***************************************************************************)
(* legacyshop-api                                                          *)
(***************************************************************************)
LA_Skus == {"WIDGET-001", "TOOL-003", "INACTIVE-PRODUCT", "FREE-000"}

LA_Price(sku) == CASE sku = "WIDGET-001" -> 1000
                   [] sku = "TOOL-003" -> 5000
                   [] sku = "INACTIVE-PRODUCT" -> 10000
                   [] OTHER -> 0

\* Line items a request may carry: any quantity of widgets, one unit of the
\* tool, of the inactive, of the zero-priced and of the unknown product.
LA_ItemRequests ==
    [productSku : {"WIDGET-001"}, quantity : 1..MaxQty]
    \cup [productSku : {"TOOL-003", "INACTIVE-PRODUCT", "FREE-000", "UNKNOWN-SKU"},
          quantity : {1}]

\* One-item requests, and two-item requests that start with one widget and
\* go on with an item that is available, short of stock, inactive or unknown.
LA_Requests ==
    {<<a>> : a \in LA_ItemRequests \ {[productSku |-> "TOOL-003", quantity |-> 1]}}
    \cup {<<[productSku |-> "WIDGET-001", quantity |-> 1], b>> :
             b \in LA_ItemRequests \ {[productSku |-> "WIDGET-001", quantity |-> 1],
                                       [productSku |-> "FREE-000", quantity |-> 1]}}

LA_init_db ==
    [sku \in LA_Skus |->
        [price |-> LA_Price(sku), stock_quantity |-> InitStock,
         active |-> sku # "INACTIVE-PRODUCT"]]

\* Tiers that start just above their thresholds.
LA_calculate_discount_exclusive(subtotal) ==
    IF subtotal > tier3_threshold THEN QuantizeHalfUp(subtotal, tier3_discount)
    ELSE IF subtotal > tier2_threshold THEN QuantizeHalfUp(subtotal, tier2_discount)
    ELSE IF subtotal > tier1_threshold THEN QuantizeHalfUp(subtotal, tier1_discount)
    ELSE 0

\* DiscountService.calculate_discount
LA_calculate_discount(subtotal) ==
    IF subtotal >= tier3_threshold THEN QuantizeHalfUp(subtotal, tier3_discount)
    ELSE IF subtotal >= tier2_threshold THEN QuantizeHalfUp(subtotal, tier2_discount)
    ELSE IF subtotal >= tier1_threshold THEN QuantizeHalfUp(subtotal, tier1_discount)
    ELSE 0

\* OrderService._order_to_response
LA_order_to_response(db, id) ==
    [id |-> id, status |-> db.orders[id].status,
     subtotal |-> db.orders[id].subtotal,
     discountAmount |-> db.orders[id].discount_amount,
     total |-> db.orders[id].total,
     idempotencyKey |-> db.orders[id].idempotency_key]

\* The tables as one value: what a session reads and writes.
Database ==
    [products |-> products, customers |-> customers, orders |-> orders,
     payments |-> payments, idempotency_records |-> idempotency_records,
     audit_logs |-> audit_logs]

\* A decrement that is lost: the product keeps its stock.
LA_decrement_stock_lost(product, quantity) == product

\* Product.decrement_stock
LA_decrement_stock(product, quantity) ==
    [product EXCEPT !.stock_quantity = product.stock_quantity - quantity]

\* Product.increment_stock
LA_increment_stock(product, quantity) ==
    [product EXCEPT !.stock_quantity = product.stock_quantity + quantity]

\* An item processed without the stock check.
LA_process_order_item_unchecked(session, item_request) ==
    LET sku == item_request.productSku IN
    IF sku \notin DOMAIN session.products
    THEN [session EXCEPT !.error = "ResourceNotFound", !.detail = "product_not_found"]
    ELSE LET product == session.products[sku] IN
         [session EXCEPT
            !.items = Append(@, [product_sku |-> sku,
                                 quantity |-> item_request.quantity,
                                 unit_price |-> product.price,
                                 subtotal |-> product.price * item_request.quantity]),
            !.products[sku] = LA_decrement_stock(product, item_request.quantity)]

\* OrderService._process_order_item, on the session's uncommitted rows
LA_process_order_item(session, item_request) ==
    LET sku == item_request.productSku IN
    IF sku \notin DOMAIN session.products
    THEN [session EXCEPT !.error = "ResourceNotFound", !.detail = "product_not_found"]
    ELSE LET product == session.products[sku] IN
         IF ~product.active
         THEN [session EXCEPT !.error = "BusinessValidation", !.detail = "inactive"]
         ELSE IF product.stock_quantity < item_request.quantity
         THEN [session EXCEPT !.error = "BusinessValidation",
                              !.detail = "insufficient_stock"]
         ELSE [session EXCEPT
                 !.items = Append(@, [product_sku |-> sku,
                                      quantity |-> item_request.quantity,
                                      unit_price |-> product.price,
                                      subtotal |-> product.price * item_request.quantity]),
                 !.products[sku] = LA_decrement_stock(product, item_request.quantity)]

RECURSIVE LA_process_order_items(_, _)
LA_process_order_items(session, items) ==
    IF items = <<>> \/ session.error # "none" THEN session
    ELSE LA_process_order_items(LA_process_order_item(session, Head(items)), Tail(items))

\* Totals that forget to take the discount off.
LA_apply_discount_forgotten(items) ==
    LET subtotal == SumSeq([i \in 1..Len(items) |-> items[i].subtotal])
    IN [subtotal |-> subtotal, discount_amount |-> LA_calculate_discount(subtotal),
        total |-> subtotal]

\* Order.calculate_totals / Order.apply_discount on the flushed items
LA_apply_discount(items) ==
    LET subtotal == SumSeq([i \in 1..Len(items) |-> items[i].subtotal])
        discount_amount == LA_calculate_discount(subtotal)
    IN [subtotal |-> subtotal, discount_amount |-> discount_amount,
        total |-> subtotal - discount_amount]

LA_order_with_key(db, idempotency_key) ==
    {id \in DOMAIN db.orders : db.orders[id].idempotency_key = idempotency_key}

\* A lookup that never finds the order stored under the key.
LA_existing_order_never(db, idempotency_key) == {}

\* create_order lines 28-31: the order already stored under the key
LA_existing_order(db, idempotency_key) ==
    IF idempotency_key # NoKey THEN LA_order_with_key(db, idempotency_key) ELSE {}

\* INSERT INTO orders under uk_order_idempotency_key (NULL keys never clash)
LA_insert_order(db, order) ==
    IF order.idempotency_key # NoKey
       /\ LA_order_with_key(db, order.idempotency_key) # {}
    THEN [ok |-> FALSE, db |-> db]
    ELSE [ok |-> TRUE, db |-> [db EXCEPT !.orders = Append(@, order)]]

\* A close that commits what the session had flushed.
LA_get_db_close_commits(db, session) == session

\* get_db: the handler raised, the session is closed without a commit and
\* what it had flushed (session) is rolled back.
LA_get_db_close(db, session) == db

\* The request body an order was created from (items in request order).
LA_request_of(order) ==
    [i \in 1..Len(order.items) |->
        [productSku |-> order.items[i].product_sku,
         quantity |-> order.items[i].quantity]]

\* create_order lines 58-75: the idempotency record and the audit log of the
\* order, written after the order's own commit
LA_record_order(db, idempotency_key, id) ==
    [db EXCEPT
       !.idempotency_records =
           IF idempotency_key # NoKey
           THEN @ \cup {[idempotency_key |-> idempotency_key,
                         operation_type |-> "ORDER_CREATE",
                         result_entity_id |-> id,
                         result_status |-> "PENDING"]}
           ELSE @,
       !.audit_logs = Append(@, [entity_type |-> "ORDER",
                                 entity_id |-> id,
                                 action |-> "CREATED"])]

\* create_order lines 33-56, after the lookup of line 28-31 found no order.
\* customer_found: what _find_or_create_customer read.  crash: the process dies (or the second
\* commit raises) after the commit of line 56 and before that of line 75.
LA_create_new_order(db, request, email, idempotency_key, crash, customer_found) ==
    LET session == LA_process_order_items(
                      [products |-> db.products, items |-> <<>>, error |-> "none",
                       detail |-> "none"],
                      request)
        totals == LA_apply_discount(session.items)
        id == Len(db.orders) + 1
        order == [customer |-> email, status |-> "PENDING",
                  idempotency_key |-> idempotency_key, items |-> session.items,
                  subtotal |-> totals.subtotal,
                  discount_amount |-> totals.discount_amount,
                  total |-> totals.total]
        flushed == [db EXCEPT !.products = session.products,
                              !.customers = @ \cup {email}]
        inserted == LA_insert_order(flushed, order)
        committed == inserted.db
        recorded == LA_record_order(committed, idempotency_key, id)
    IN
    IF (~customer_found /\ email \in db.customers) \/ ~inserted.ok
    THEN [db |-> LA_get_db_close(db, flushed), status |-> 500,
          error |-> "InternalError", detail |-> "integrity_error",
          order_id |-> 0, body |-> NoBody, partial |-> 0]
    ELSE IF session.error # "none"
    THEN [db |-> LA_get_db_close(db, flushed),
          status |-> IF session.error = "ResourceNotFound" THEN 404 ELSE 400,
          error |-> session.error, detail |-> session.detail,
          order_id |-> 0, body |-> NoBody, partial |-> Len(session.items)]
    ELSE IF totals.total < MinTotal
    THEN [db |-> LA_get_db_close(db, flushed), status |-> 400,
          error |-> "BusinessValidation", detail |-> "total_below_minimum",
          order_id |-> 0, body |-> NoBody, partial |-> Len(session.items)]
    ELSE IF crash
    THEN [db |-> committed, status |-> 500, error |-> "InternalError",
          detail |-> "crash_after_order_commit",
          order_id |-> 0, body |-> NoBody, partial |-> Len(session.items)]
    ELSE [db |-> recorded, status |-> 201, error |-> "none", detail |-> "none",
          order_id |-> id, body |-> LA_order_to_response(recorded, id),
          partial |-> Len(session.items)]

\* OrderService.create_order
LA_service_create_order(db, request, email, idempotency_key, crash) ==
    LET existing == LA_existing_order(db, idempotency_key) IN
    IF existing # {}
    THEN LET id == CHOOSE id \in existing : TRUE IN
         [db |-> db, status |-> 201, error |-> "none", detail |-> "none",
          order_id |-> id, body |-> LA_order_to_response(db, id), partial |-> 0]
    ELSE LA_create_new_order(db, request, email, idempotency_key, crash,
                             email \in db.customers)

\* The event loop is inside the authorize-payment handler, between two
\* commits with no await: no other handler runs until it has finished.
LA_handler_running == auth.pc = "authorized"

\* routers/orders.py create_order lines 32-38: the record stored under the key
LA_existing_record(db, idempotency_key) ==
    IF idempotency_key # NoKey
    THEN {r \in db.idempotency_records :
             r.idempotency_key = idempotency_key /\ r.result_entity_id # 0}
    ELSE {}

\* routers/orders.py create_order
LA_router_create_order(db, request, email, idempotency_key, crash) ==
    LET existing_record == LA_existing_record(db, idempotency_key) IN
    IF existing_record # {}
    THEN LET id == (CHOOSE r \in existing_record : TRUE).result_entity_id IN
         [db |-> db, status |-> 200, error |-> "none", detail |-> "none",
          order_id |-> id, body |-> LA_order_to_response(db, id), partial |-> 0]
    ELSE LA_service_create_order(db, request, email, idempotency_key, crash)

Commit(db) ==
    /\ products' = db.products
    /\ customers' = db.customers
    /\ orders' = db.orders
    /\ payments' = db.payments
    /\ idempotency_records' = db.idempotency_records
    /\ audit_logs' = db.audit_logs

LA_create_order(request, email, idempotency_key, crash) ==
    LET out == LA_router_create_order(Database, request, email, idempotency_key, crash) IN
    /\ Delivered
    /\ ~LA_handler_running
    /\ Len(out.db.orders) <= MaxOrders
    /\ Commit(out.db)
    /\ resp' = Response([op |-> "create_order", key |-> idempotency_key,
                         request |-> request, order_id |-> out.order_id, status |-> out.status,
                         error |-> out.error, detail |-> out.detail,
                         body |-> out.body,
                         partial |-> out.partial])
    /\ UNCHANGED <<gateway, auth>>

\* The Payment rows of an order (payments.order_id is UNIQUE: at most one).
LA_payments_of(db, order_id) ==
    {p \in DOMAIN db.payments : db.payments[p].order_id = order_id}

\* INSERT INTO payments under the UNIQUE constraint on order_id
\* (models.py line 134): ok = FALSE is sqlalchemy.exc.IntegrityError.
LA_insert_payment(db, row) ==
    IF LA_payments_of(db, row.order_id) # {}
    THEN [ok |-> FALSE, db |-> db]
    ELSE [ok |-> TRUE, db |-> [db EXCEPT !.payments = Append(@, row)]]

RECURSIVE LA_restore_stock(_, _)
\* cancel_order lines 159-162
LA_restore_stock(prods, items) ==
    IF items = <<>> THEN prods
    ELSE LET item == Head(items) IN
         LA_restore_stock(
             IF item.product_sku \in DOMAIN prods
             THEN [prods EXCEPT ![item.product_sku] = LA_increment_stock(@, item.quantity)]
             ELSE prods,
             Tail(items))

\* PaymentService.void_payment: Payment.void() and commit; the gateway is
\* never called.
LA_void_payment(db, payment_id) ==
    [db EXCEPT !.payments[payment_id].status = "VOIDED"]

\* A check that lets every order be cancelled.
LA_can_be_cancelled_always(order) == TRUE

\* Order.can_be_cancelled
LA_can_be_cancelled(order) == order.status \in {"PENDING", "PAID"}

\* OrderService.cancel_order
LA_service_cancel_order(db, order_id) ==
    IF order_id \notin DOMAIN db.orders
    THEN [db |-> db, status |-> 404, error |-> "ResourceNotFound", body |-> NoBody,
          payment_writes |-> 0]
    ELSE IF ~LA_can_be_cancelled(db.orders[order_id])
    THEN [db |-> db, status |-> 400, error |-> "BusinessValidation", body |-> NoBody,
          payment_writes |-> 0]
    ELSE
    LET restored == [db EXCEPT !.products =
                        LA_restore_stock(@, db.orders[order_id].items)]
        authorized == {p \in LA_payments_of(db, order_id) :
                          db.payments[p].status = "AUTHORIZED"}
        voided == IF authorized # {}
                  THEN LA_void_payment(restored, CHOOSE p \in authorized : TRUE)
                  ELSE restored
        cancelled == [voided EXCEPT
                        !.orders[order_id].status = "CANCELLED",
                        !.audit_logs = Append(@, [entity_type |-> "ORDER",
                                                  entity_id |-> order_id,
                                                  action |-> "CANCELLED"])]
    IN [db |-> cancelled, status |-> 200, error |-> "none",
        body |-> LA_order_to_response(cancelled, order_id),
        payment_writes |-> Cardinality(authorized)]

LA_cancel_order(order_id) ==
    LET out == LA_service_cancel_order(Database, order_id) IN
    /\ Delivered
    /\ ~LA_handler_running
    /\ Commit(out.db)
    /\ resp' = Response([op |-> "cancel_order", order_id |-> order_id,
                         status |-> out.status, error |-> out.error,
                         body |-> out.body,
                         pre_status |-> IF order_id \in DOMAIN orders
                                        THEN orders[order_id].status ELSE "NONE",
                         payment_writes |-> out.payment_writes])
    /\ UNCHANGED <<gateway, auth>>

\* PaymentService.authorize_payment lines 30-57: everything one attempt
\* does before it awaits the gateway.
LA_authorize_prepare(db, order_id) ==
    IF order_id \notin DOMAIN db.orders
    THEN [next |-> "raise", error |-> "ResourceNotFound", status |-> 404,
          db |-> db, payment |-> 0, writes |-> 0]
    ELSE
    LET existing == LA_payments_of(db, order_id)
        existing_payment == CHOOSE p \in existing : TRUE
        inserted == LA_insert_payment(db, [order_id |-> order_id,
                                           amount |-> db.orders[order_id].total,
                                           status |-> "PENDING",
                                           external_authorization_id |-> 0,
                                           retry_attempts |-> 0])
    IN
    IF existing # {} /\ db.payments[existing_payment].status = "AUTHORIZED"
    THEN [next |-> "return", error |-> "none", status |-> 200,
          db |-> db, payment |-> existing_payment, writes |-> 0]
    ELSE IF existing # {} /\ db.payments[existing_payment].status = "PENDING"
    THEN [next |-> "call", error |-> "none", status |-> 0,
          db |-> db, payment |-> existing_payment, writes |-> 0]
    ELSE IF ~inserted.ok
    THEN [next |-> "raise", error |-> "InternalError", status |-> 500,
          db |-> db, payment |-> 0, writes |-> 0]
    ELSE [next |-> "call", error |-> "none", status |-> 0,
          db |-> inserted.db, payment |-> Len(inserted.db.payments), writes |-> 1]

\* One attempt of the @retry-wrapped authorize_payment, up to its await.
LA_authorize_attempt(order_id, attempt, calls, answers, pre_status, pre_payment, writes) ==
    LET out == LA_authorize_prepare(Database, order_id) IN
    /\ Delivered
    /\ Commit(out.db)
    /\ IF out.next = "call"
       THEN /\ auth' = [pc |-> "calling", order_id |-> order_id,
                        payment |-> out.payment, attempt |-> attempt,
                        calls |-> calls + 1, answers |-> answers,
                        pre_status |-> pre_status,
                        pre_payment |-> pre_payment,
                        payment_writes |-> writes + out.writes,
                        retryable |-> FALSE]
            /\ resp' = resp
       ELSE /\ auth' = AuthIdle
            /\ resp' = Response([op |-> "authorize_payment", order_id |-> order_id,
                                 status |-> out.status, error |-> out.error,
                                 calls |-> calls, attempts |-> attempt,
                                 answers |-> answers, pre_status |-> pre_status,
                                 pre_payment |-> pre_payment,
                                 payment_writes |-> writes + out.writes])
    /\ UNCHANGED gateway

\* The status of the order's Payment, "NONE" when it has none.
LA_payment_status(db, order_id) ==
    IF LA_payments_of(db, order_id) = {} THEN "NONE"
    ELSE db.payments[CHOOSE p \in LA_payments_of(db, order_id) : TRUE].status

\* POST /api/orders/{id}/authorize-payment arrives.
LA_authorize_payment(order_id) ==
    /\ auth.pc = "idle"
    /\ LA_authorize_attempt(order_id, 1, 0, <<>>,
           IF order_id \in DOMAIN orders THEN orders[order_id].status ELSE "NONE",
           LA_payment_status(Database, order_id), 0)

\* tenacity: retry_if_exception_type(PaymentException), stop_after_attempt
LA_retry(attempt) == attempt < payment_max_attempts

\* The attempt ended in PaymentException(retryable), db being what it had
\* committed: wait and run again, or give up and let the exception handler
\* answer (502 if retryable, else 400).
LA_attempt_failed(db, retryable, gw, answer, writes) ==
    /\ Commit(db)
    /\ gateway' = gw
    /\ IF LA_retry(auth.attempt)
       THEN /\ auth' = [auth EXCEPT !.pc = "backoff", !.retryable = retryable,
                                    !.answers = Append(@, answer),
                                    !.payment_writes = @ + writes]
            /\ resp' = resp
       ELSE /\ auth' = AuthIdle
            /\ resp' = Response([op |-> "authorize_payment",
                                 order_id |-> auth.order_id,
                                 status |-> IF retryable THEN 502 ELSE 400,
                                 error |-> "PaymentException",
                                 retryable |-> retryable,
                                 calls |-> auth.calls,
                                 attempts |-> auth.attempt,
                                 answers |-> Append(auth.answers, answer),
                                 pre_status |-> auth.pre_status,
                                 pre_payment |-> auth.pre_payment,
                                 payment_writes |-> auth.payment_writes + writes])

\* Payment.increment_retry_attempts and Payment.fail, committed
LA_payment_fail(db, payment_id) ==
    [db EXCEPT !.payments[payment_id].retry_attempts = @ + 1,
               !.payments[payment_id].status = "FAILED"]

\* Payment.authorize, committed
LA_payment_authorize(db, payment_id, authorization_id) ==
    [db EXCEPT !.payments[payment_id].status = "AUTHORIZED",
               !.payments[payment_id].external_authorization_id = authorization_id]

\* Order.mark_as_paid: TRUE when it raises ValueError
LA_mark_as_paid_raises(order) == order.status # "PENDING"

\* The gateway answers 2xx with a fresh authorizationId: lines 60-68.  The
\* authorization is committed (line 63) before Order.mark_as_paid runs: when
\* that raises, the handler goes on in LA_mark_as_paid_failed.
LA_gateway_authorized ==
    /\ Delivered
    /\ auth.pc = "calling"
    /\ LET authorization_id == gateway.next
           gw == [gateway EXCEPT !.next = @ + 1, !.held = @ \cup {authorization_id}]
           authorized == LA_payment_authorize(Database, auth.payment, authorization_id)
       IN
       IF LA_mark_as_paid_raises(orders[auth.order_id])
       THEN /\ Commit(authorized)
            /\ gateway' = gw
            /\ auth' = [auth EXCEPT !.pc = "authorized", !.payment_writes = @ + 1]
            /\ resp' = resp
       ELSE /\ Commit([authorized EXCEPT !.orders[auth.order_id].status = "PAID"])
            /\ auth' = AuthIdle
            /\ resp' = Response([op |-> "authorize_payment",
                                 order_id |-> auth.order_id, status |-> 200,
                                 calls |-> auth.calls,
                                 attempts |-> auth.attempt,
                                 answers |-> Append(auth.answers, "2xx"),
                                 pre_status |-> auth.pre_status,
                                 pre_payment |-> auth.pre_payment,
                                 payment_writes |-> auth.payment_writes + 1])
            /\ gateway' = gw

\* Order.mark_as_paid raised ValueError after the authorization was
\* committed: the except Exception of lines 91-96 fails the payment.
LA_mark_as_paid_failed ==
    /\ auth.pc = "authorized"
    /\ LA_attempt_failed(LA_payment_fail(Database, auth.payment), TRUE, gateway,
                         "2xx", 1)

\* The gateway answers 4xx or 5xx, or the call times out: lines 70-96.
LA_gateway_failed(answer) ==
    /\ Delivered
    /\ auth.pc = "calling"
    /\ LA_attempt_failed(LA_payment_fail(Database, auth.payment),
                         answer # "4xx", gateway, answer, 1)

\* tenacity's wait_fixed is over: authorize_payment runs again.
LA_authorize_retry ==
    /\ auth.pc = "backoff"
    /\ LA_authorize_attempt(auth.order_id, auth.attempt + 1, auth.calls,
                            auth.answers, auth.pre_status, auth.pre_payment,
                            auth.payment_writes)

\* Fulfilment, outside this service, ships a paid order (OrderStatus.SHIPPED).
LA_ship(order_id) ==
    /\ Delivered
    /\ ~LA_handler_running
    /\ order_id \in DOMAIN orders
    /\ orders[order_id].status = "PAID"
    /\ orders' = [orders EXCEPT ![order_id].status = "SHIPPED"]
    /\ UNCHANGED <<products, customers, payments, idempotency_records,
                   audit_logs, gateway, auth, resp>>

InitLA ==
    /\ products = LA_init_db
    /\ customers = {}
    /\ orders = <<>>
    /\ payments = <<>>
    /\ idempotency_records = {}
    /\ audit_logs = <<>>
    /\ gateway = NoGateway
    /\ auth = AuthIdle
    /\ resp = NoResponse

NextLA ==
    \/ \E request \in LA_Requests, email \in Emails,
          idempotency_key \in Keys \cup {NoKey} :
          LA_create_order(request, email, idempotency_key, FALSE)
    \/ \E order_id \in 1..MaxOrders : LA_cancel_order(order_id)
    \/ \E order_id \in 1..MaxOrders : LA_authorize_payment(order_id)
    \/ LA_gateway_authorized
    \/ LA_mark_as_paid_failed
    \/ \E answer \in {"4xx", "5xx", "timeout"} : LA_gateway_failed(answer)
    \/ LA_authorize_retry
    \/ \E order_id \in 1..MaxOrders : LA_ship(order_id)
    \/ send_response

SpecLA == InitLA /\ [][NextLA]_vars

\* The same service when the process can also die between the two commits of
\* create_order.
NextLACrash ==
    \/ NextLA
    \/ \E request \in LA_Requests, email \in Emails, idempotency_key \in Keys :
          LA_create_order(request, email, idempotency_key, TRUE)

SpecLACrash == InitLA /\ [][NextLACrash]_vars

(***************************************************************************)
(* legacyshop-api, two create_order requests in flight                     *)
(*                                                                         *)
(* create_order never awaits, so the requests of one process run one after *)
(* the other; two of them run concurrently when the service runs as        *)
(* several worker processes on the one database file (database.py lines    *)
(* 10-19), each request with its own Session and SQLite connection.  The   *)
(* SELECTs a session makes before its first INSERT read what is committed  *)
(* at that moment; from the first flushed INSERT to the commit the session *)
(* holds SQLite's write lock, so the write transactions of two sessions    *)
(* never overlap.  Here auth holds the position of each of the requests.   *)
(***************************************************************************)
LAC_Workers == {1, 2}

LAC_Idle == [pc |-> "idle", request |-> <<>>, email |-> "none", key |-> NoKey,
             customer_found |-> FALSE, seen_orders |-> 0, order_id |-> 0]

\* One-item requests for the stocked products.
LAC_Requests ==
    {<<[productSku |-> sku, quantity |-> q]>> :
        sku \in {"WIDGET-001", "FREE-000"}, q \in 1..MaxQty}

LAC_respond(w, out) ==
    /\ Delivered
    /\ resp' = Response([op |-> "create_order", key |-> auth[w].key,
                         request |-> auth[w].request, order_id |-> out.order_id,
                         status |-> out.status, error |-> out.error,
                         detail |-> out.detail, body |-> out.body,
                         partial |-> out.partial,
                         seen_orders |-> auth[w].seen_orders])
    /\ auth' = [auth EXCEPT ![w] = LAC_Idle]

\* routers/orders.py lines 32-38 and create_order lines 28-33: the lookups of
\* the record, of the order and of the customer.  A request that finds the
\* record or the order answers at once; another goes on to write.
LAC_begin(w, request, email, idempotency_key) ==
    /\ auth[w].pc = "idle"
    /\ LET started == [LAC_Idle EXCEPT !.request = request, !.email = email,
                                       !.key = idempotency_key,
                                       !.customer_found = email \in customers,
                                       !.seen_orders = Len(orders)]
       IN
       IF LA_existing_record(Database, idempotency_key) # {}
          \/ LA_existing_order(Database, idempotency_key) # {}
       THEN LET out == LA_router_create_order(Database, request, email,
                                              idempotency_key, FALSE) IN
            /\ Delivered
            /\ resp' = Response([op |-> "create_order", key |-> idempotency_key,
                                 request |-> request, order_id |-> out.order_id,
                                 status |-> out.status, error |-> out.error,
                                 detail |-> out.detail, body |-> out.body,
                                 seen_orders |-> Len(orders)])
            /\ UNCHANGED auth
       ELSE /\ auth' = [auth EXCEPT ![w] = [started EXCEPT !.pc = "read"]]
            /\ UNCHANGED resp
    /\ UNCHANGED <<products, customers, orders, payments, idempotency_records,
                   audit_logs, gateway>>

\* create_order lines 33-56: the write transaction up to the first commit
\* (LA_create_new_order stopped after line 56), on what is committed now.
LAC_write(w) ==
    /\ auth[w].pc = "read"
    /\ LET out == LA_create_new_order(Database, auth[w].request, auth[w].email,
                                      auth[w].key, TRUE, auth[w].customer_found)
       IN
       /\ Len(out.db.orders) <= MaxOrders
       /\ Commit(out.db)
       /\ IF out.detail = "crash_after_order_commit"
          THEN /\ auth' = [auth EXCEPT ![w].pc = "committed",
                                       ![w].order_id = Len(out.db.orders)]
               /\ UNCHANGED resp
          ELSE LAC_respond(w, out)
    /\ UNCHANGED gateway

\* create_order lines 58-77: the record and the audit log, second commit
LAC_record(w) ==
    /\ auth[w].pc = "committed"
    /\ LET recorded == LA_record_order(Database, auth[w].key, auth[w].order_id) IN
       /\ Commit(recorded)
       /\ LAC_respond(w, [order_id |-> auth[w].order_id, status |-> 201,
                          error |-> "none", detail |-> "none",
                          body |-> LA_order_to_response(recorded, auth[w].order_id),
                          partial |-> Len(auth[w].request)])
    /\ UNCHANGED gateway

InitLAConc ==
    /\ products = LA_init_db
    /\ customers = {}
    /\ orders = <<>>
    /\ payments = <<>>
    /\ idempotency_records = {}
    /\ audit_logs = <<>>
    /\ gateway = NoGateway
    /\ auth = [w \in LAC_Workers |-> LAC_Idle]
    /\ resp = NoResponse

NextLAConc ==
    \/ \E w \in LAC_Workers, request \in LAC_Requests, email \in Emails,
          idempotency_key \in Keys \cup {NoKey} :
          LAC_begin(w, request, email, idempotency_key)
    \/ \E w \in LAC_Workers : LAC_write(w)
    \/ \E w \in LAC_Workers : LAC_record(w)
    \/ send_response

SpecLAConc == InitLAConc /\ [][NextLAConc]_vars

(***************************************************************************)
(* legacyshop-api, DiscountService.calculate_discount on its own: a        *)
(* subtotal in whole cents is chosen and the discount is calculated; resp  *)
(* carries the subtotal and then the result.                               *)
(***************************************************************************)
MaxSubtotal == 20100

InitDiscount ==
    /\ products = LA_init_db
    /\ customers = {}
    /\ orders = <<>>
    /\ payments = <<>>
    /\ idempotency_records = {}
    /\ audit_logs = <<>>
    /\ gateway = NoGateway
    /\ auth = AuthIdle
    /\ \E subtotal \in 0..MaxSubtotal :
          resp = Response([op |-> "subtotal",
                           body |-> [NoBody EXCEPT !.subtotal = subtotal]])

\* discount_service.calculate_discount(subtotal) is called
LA_call_calculate_discount ==
    /\ resp.op = "subtotal"
    /\ resp' = [resp EXCEPT !.op = "calculate_discount",
                            !.body.discountAmount =
                                LA_calculate_discount(resp.body.subtotal)]
    /\ UNCHANGED <<products, customers, orders, payments, idempotency_records,
                   audit_logs, gateway, auth>>

NextDiscount == LA_call_calculate_discount

SpecDiscount == InitDiscount /\ [][NextDiscount]_vars

(***************************************************************************)
(* Properties of legacyshop-api                                            *)
(***************************************************************************)

\* C1: an authorize-payment request for an order that is not PENDING is
\* rejected with a business-validation error before the gateway is
\* contacted: no gateway call, no Payment row created or changed.
C1_NonPendingAuthorizeRejected ==
    (resp.op = "authorize_payment"
        /\ resp.pre_status \in {"PAID", "CANCELLED", "SHIPPED"})
    => /\ resp.error = "BusinessValidation"
       /\ resp.calls = 0
       /\ resp.payment_writes = 0

\* C3: when the gateway answers 4xx, the request made exactly one gateway
\* call, ran once, and failed with a payment error that is not retryable.
C3_ClientErrorNeverRetried ==
    (resp.op = "authorize_payment" /\ resp.answers # <<>>
        /\ resp.answers[1] = "4xx")
    => /\ resp.calls = 1
       /\ resp.attempts = 1
       /\ resp.error = "PaymentException"
       /\ ~resp.retryable

\* C4: a request for a PENDING order whose first gateway call was answered
\* 5xx, the gateway being ready to answer 2xx to the next, ends in success
\* after exactly two gateway calls and two attempts, with the Payment
\* AUTHORIZED and the order PAID.
C4_ServerErrorThenSuccess ==
    (resp.op = "authorize_payment" /\ resp.pre_status = "PENDING"
        /\ resp.answers \in {<<"5xx">>, <<"5xx", "2xx">>})
    => /\ resp.status = 200
       /\ resp.calls = 2
       /\ resp.attempts = 2
       /\ orders[resp.order_id].status = "PAID"
       /\ \E p \in LA_payments_of(Database, resp.order_id) :
             payments[p].status = "AUTHORIZED"

\* C6: a Payment is VOIDED only once the gateway has voided its
\* authorization id; no VOIDED payment has an authorization the gateway
\* still holds.
C6_VoidedOnlyAfterGatewayVoid ==
    \A p \in DOMAIN payments :
        payments[p].status = "VOIDED"
        => /\ payments[p].external_authorization_id \in gateway.voided
           /\ payments[p].external_authorization_id \notin gateway.held

\* C8: a create_order that fails on an unknown SKU, an inactive product,
\* insufficient stock or a total below the minimum leaves no order, item,
\* customer, stock decrement or other row behind.
C8_FailedCreateLeavesNothing ==
    [][(resp.op = "none" /\ resp'.op = "create_order"
          /\ resp'.error \in {"ResourceNotFound", "BusinessValidation"})
       => /\ orders' = orders
          /\ customers' = customers
          /\ products' = products
          /\ payments' = payments
          /\ idempotency_records' = idempotency_records
          /\ audit_logs' = audit_logs]_vars

\* C8 witness: a two-item request of a new customer failed on its second
\* item after the first had been flushed.
C8_Witness ==
    /\ resp.op = "create_order"
    /\ resp.detail = "insufficient_stock"
    /\ resp.partial >= 1
    /\ customers = {}
    /\ orders = <<>>

C10_KeyReuseConflicts ==
    (resp.op = "create_order" /\ resp.key # NoKey
        /\ \E id \in LA_order_with_key(Database, resp.key) :
              LA_request_of(orders[id]) # resp.request)
    => /\ resp.status = 409
       /\ resp.error = "DuplicateResource"

\* C11: of two concurrent create_order requests with the same
\* Idempotency-Key one creates the order and the other returns the stored
\* result (a replay or a 409 conflict): never a second order under the key,
\* never an internal error for a request whose key has an order.
C11_ConcurrentSameKeyNoInternalError ==
    /\ \A k \in Keys : Cardinality(LA_order_with_key(Database, k)) <= 1
    /\ (resp.op = "create_order" /\ resp.key # NoKey
           /\ LA_order_with_key(Database, resp.key) # {})
       => resp.status \in {200, 201, 409}

\* The quantity of a product that the committed orders hold.
LA_sold(sku) ==
    SumSeq([i \in 1..Len(orders) |->
              SumSeq([j \in 1..Len(orders[i].items) |->
                        IF orders[i].items[j].product_sku = sku
                        THEN orders[i].items[j].quantity ELSE 0])])

\* C12: when create_order requests run concurrently, the quantity sold never
\* exceeds the stock that was available and no stock update is lost: stock
\* is never negative and stock plus sold is the initial stock.
C12_ConcurrentStockConserved ==
    \A sku \in LA_Skus :
        /\ products[sku].stock_quantity >= 0
        /\ products[sku].stock_quantity + LA_sold(sku) = LA_init_db[sku].stock_quantity

\* A request that read while stock was left loses the last unit to the
\* request that wrote first.
C12_Witness ==
    /\ resp.op = "create_order"
    /\ resp.detail = "insufficient_stock"
    /\ resp.request[1].quantity = 1
    /\ \E i \in (resp.seen_orders + 1)..Len(orders) :
          orders[i].items[1].product_sku = resp.request[1].productSku
    /\ products[resp.request[1].productSku].stock_quantity = 0

\* C13: an order and its idempotency record become visible in one commit:
\* in no state, a failure between the steps of create_order included, is an
\* order carrying a key committed while no record for that key exists.
C13_OrderAndRecordInOneCommit ==
    \A id \in DOMAIN orders :
        orders[id].idempotency_key # NoKey
        => \E r \in idempotency_records :
              /\ r.idempotency_key = orders[id].idempotency_key
              /\ r.result_entity_id = id

\* C14: an idempotent replay returns the response stored at creation time
\* verbatim: the body of the first response (the order as created, PENDING),
\* even if the order was paid or cancelled between the two calls.
C14_ReplayReturnsFirstResponse ==
    (resp.op = "create_order" /\ resp.status = 200)
    => resp.body = [LA_order_to_response(Database, resp.order_id)
                       EXCEPT !.status = "PENDING"]

\* C15: after an authorize-payment attempt on a PENDING order has left its
\* Payment FAILED the caller may retry: a later authorize-payment call on
\* the order, the gateway answering 2xx to whatever it is asked, succeeds
\* and moves the order to PAID.
C15_RetryAfterFailedPaymentSucceeds ==
    (resp.op = "authorize_payment" /\ resp.pre_status = "PENDING"
        /\ resp.pre_payment = "FAILED"
        /\ \A i \in DOMAIN resp.answers : resp.answers[i] = "2xx")
    => /\ resp.status = 200
       /\ orders[resp.order_id].status = "PAID"

\* C19: a Payment's status changes only along PENDING -> AUTHORIZED,
\* PENDING -> FAILED or AUTHORIZED -> VOIDED: an AUTHORIZED payment is never
\* set to FAILED, a FAILED payment never to AUTHORIZED.
C19_PaymentStatusTransitions ==
    [][\A p \in DOMAIN payments :
          \/ payments'[p].status = payments[p].status
          \/ <<payments[p].status, payments'[p].status>> \in
                {<<"PENDING", "AUTHORIZED">>, <<"PENDING", "FAILED">>,
                 <<"AUTHORIZED", "VOIDED">>}]_vars

\* C21: cancel_order succeeds on a PENDING or PAID order and is rejected on
\* a CANCELLED or SHIPPED order; a rejected cancel changes neither the
\* order's status nor any product's stock.
C21_CancelByStatus ==
    [][(resp.op = "none" /\ resp'.op = "cancel_order"
           /\ resp'.order_id \in DOMAIN orders)
       => IF orders[resp'.order_id].status \in {"PENDING", "PAID"}
          THEN /\ resp'.status = 200
               /\ orders'[resp'.order_id].status = "CANCELLED"
          ELSE /\ orders[resp'.order_id].status \in {"CANCELLED", "SHIPPED"}
               /\ resp'.status = 400
               /\ resp'.error = "BusinessValidation"
               /\ orders' = orders
               /\ products' = products]_vars

\* A cancel of a SHIPPED order has just been rejected, after another order
\* was cancelled.
C21_Witness ==
    /\ resp.op = "cancel_order"
    /\ resp.status = 400
    /\ resp.pre_status = "SHIPPED"
    /\ \E id \in DOMAIN orders : orders[id].status = "CANCELLED"

\* C23: every order persisted by create_order has total = subtotal -
\* discount, discount <= subtotal and total >= 0.01; a request whose total
\* would be below 0.01 (in-stock items of price zero, under a key not used
\* before) is rejected and persists nothing.
C23_PersistedTotals ==
    [][/\ \A id \in DOMAIN orders' :
             /\ orders'[id].total = orders'[id].subtotal - orders'[id].discount_amount
             /\ orders'[id].discount_amount <= orders'[id].subtotal
             /\ orders'[id].total >= MinTotal
       /\ (resp.op = "none" /\ resp'.op = "create_order"
              /\ LA_existing_record(Database, resp'.key) = {}
              /\ LA_existing_order(Database, resp'.key) = {}
              /\ \A i \in DOMAIN resp'.request :
                    LET item == resp'.request[i] IN
                    /\ item.productSku \in DOMAIN products
                    /\ products[item.productSku].active
                    /\ products[item.productSku].price = 0
                    /\ products[item.productSku].stock_quantity >= item.quantity)
          => /\ resp'.status = 400
             /\ resp'.error = "BusinessValidation"
             /\ UNCHANGED <<products, customers, orders, payments,
                            idempotency_records, audit_logs>>]_vars

\* An order with a discount is stored and a request for the zero-priced
\* product has just been rejected.
C23_Witness ==
    /\ resp.op = "create_order"
    /\ resp.detail = "total_below_minimum"
    /\ resp.request = <<[productSku |-> "FREE-000", quantity |-> 1]>>
    /\ \E id \in DOMAIN orders : orders[id].discount_amount > 0

\* C24: for every subtotal S in whole cents calculate_discount returns S
\* times the rate, rounded half-up to the cent, the rate being that of the
\* highest tier whose threshold is at most S (15% from 200.00, 10% from
\* 100.00, 5% from 50.00) and nothing below 50.00: the thresholds
\* themselves get the higher tier.
C24_DiscountIsTieredHalfUp ==
    resp.op = "calculate_discount"
    => LET S == resp.body.subtotal
           d == resp.body.discountAmount
           reached == {t \in {<<5000, 5>>, <<10000, 10>>, <<20000, 15>>} : t[1] <= S}
           rate == IF reached = {} THEN 0
                   ELSE (CHOOSE t \in reached : \A u \in reached : u[1] <= t[1])[2]
       IN /\ 100 * d <= S * rate + 50
          /\ S * rate + 50 < 100 * d + 100

\* The discount of exactly 200.00 has been calculated: 30.00.
C24_Witness ==
    /\ resp.op = "calculate_discount"
    /\ resp.body.subtotal = 20000
    /\ resp.body.discountAmount = 3000

\* C28: across any sequence of create_order, authorize-payment and cancel
\* calls every product's stock quantity stays at or above zero.
C28_StockNeverNegative ==
    \A sku \in DOMAIN products : products[sku].stock_quantity >= 0

\* The stock of the widget is sold out and a request for it was refused.
C28_Witness ==
    /\ resp.op = "create_order"
    /\ resp.detail = "insufficient_stock"
    /\ products["WIDGET-001"].stock_quantity = 0
    /\ \E id \in DOMAIN orders : orders[id].status = "CANCELLED"

(***************************************************************************)
(* fastapi-rewrite: in-memory dictionaries, one lock per dictionary         *)
(***************************************************************************)

MAX_RETRIES == 3

FR_Keys == {"k1", "k2"}

\* database.init_database: Widget A and Widget C, stock scaled to InitStock
FR_init_database ==
    [product_id \in {1, 3} |->
        [price |-> IF product_id = 1 THEN 1000 ELSE 5000, stock |-> InitStock]]

FR_ItemRequests ==
    [product_id : {1}, quantity : 1..MaxQty]
        \cup [product_id : {3, 9}, quantity : {1}]

FR_Requests ==
    {<<a>> : a \in [product_id : {1}, quantity : 1..MaxQty]}
        \cup {<<[product_id |-> 1, quantity |-> 1], b>> :
                 b \in FR_ItemRequests \ {[product_id |-> 1, quantity |-> 1]}}

\* OrderService.calculate_discount
FR_calculate_discount(subtotal) ==
    IF subtotal >= 20000 THEN (subtotal * 15) \div 100
    ELSE IF subtotal >= 10000 THEN (subtotal * 10) \div 100
    ELSE IF subtotal >= 5000 THEN (subtotal * 5) \div 100
    ELSE 0

\* database.update_product_stock
FR_update_product_stock(prods, product_id, new_stock) ==
    IF product_id \in DOMAIN prods
    THEN [prods EXCEPT ![product_id].stock = new_stock]
    ELSE prods

RECURSIVE FR_process_items(_, _)
\* create_order lines 66-108: the loop over request.items, each accepted
\* item written to the products dictionary at once.
FR_process_items(st, items) ==
    IF items = <<>> \/ st.status # 0 THEN st
    ELSE LET req_item == Head(items) IN
         IF req_item.product_id \notin DOMAIN st.products
         THEN [st EXCEPT !.status = 404, !.detail = "product_not_found"]
         ELSE LET product == st.products[req_item.product_id] IN
              IF product.stock < req_item.quantity
              THEN [st EXCEPT !.status = 409, !.detail = "insufficient_stock"]
              ELSE FR_process_items(
                      [st EXCEPT
                         !.products = FR_update_product_stock(
                                          @, req_item.product_id,
                                          product.stock - req_item.quantity),
                         !.items = Append(@, [product_id |-> req_item.product_id,
                                              quantity |-> req_item.quantity,
                                              price |-> product.price]),
                         !.subtotal = @ + product.price * req_item.quantity],
                      Tail(items))

\* database.check_idempotency_key
FR_check_idempotency_key(records, idempotency_key) ==
    {r \in records : r.idempotency_key = idempotency_key}

\* main.create_order and OrderService.create_order
FR_create_order(request, email, idempotency_key) ==
    LET st == FR_process_items(
                  [products |-> products, items |-> <<>>, subtotal |-> 0,
                   status |-> 0, detail |-> "none"], request)
        order == [customer_email |-> email, status |-> "CREATED",
                  items |-> st.items,
                  total_amount |-> st.subtotal - FR_calculate_discount(st.subtotal),
                  payment_id |-> 0]
    IN
    /\ Delivered
    /\ IF idempotency_key = NoKey
       THEN /\ resp' = Response([op |-> "create_order", key |-> idempotency_key,
                                 request |-> request, status |-> 400,
                                 detail |-> "missing_idempotency_key"])
            /\ UNCHANGED <<products, orders, idempotency_records>>
       ELSE IF FR_check_idempotency_key(idempotency_records, idempotency_key) # {}
       THEN /\ resp' = Response([op |-> "create_order", key |-> idempotency_key,
                                 request |-> request, status |-> 409,
                                 detail |-> "duplicate_request"])
            /\ UNCHANGED <<products, orders, idempotency_records>>
       ELSE IF st.status # 0
       THEN /\ products' = st.products
            /\ resp' = Response([op |-> "create_order", key |-> idempotency_key,
                                 request |-> request, status |-> st.status,
                                 detail |-> st.detail, partial |-> Len(st.items)])
            /\ UNCHANGED <<orders, idempotency_records>>
       ELSE /\ Len(orders) < MaxOrders
            /\ products' = st.products
            /\ orders' = Append(orders, order)
            /\ idempotency_records' = idempotency_records
                   \cup {[idempotency_key |-> idempotency_key,
                          order_id |-> Len(orders) + 1]}
            /\ resp' = Response([op |-> "create_order", key |-> idempotency_key,
                                 request |-> request, status |-> 201,
                                 order_id |-> Len(orders) + 1,
                                 partial |-> Len(st.items)])
    /\ UNCHANGED <<customers, payments, audit_logs, gateway, auth>>

\* OrderService.authorize_payment lines 160-184: up to the first gateway call
FR_authorize_payment(order_id, amount) ==
    /\ Delivered
    /\ auth.pc = "idle"
    /\ IF order_id \notin DOMAIN orders
       THEN /\ resp' = Response([op |-> "authorize_payment", order_id |-> order_id,
                                 status |-> 404, detail |-> "order_not_found"])
            /\ auth' = auth
       ELSE IF amount # orders[order_id].total_amount
       THEN /\ resp' = Response([op |-> "authorize_payment", order_id |-> order_id,
                                 status |-> 400, detail |-> "invalid_amount",
                                 pre_status |-> orders[order_id].status])
            /\ auth' = auth
       ELSE /\ auth' = [AuthIdle EXCEPT !.pc = "calling", !.order_id = order_id,
                                        !.calls = 1,
                                        !.pre_status = orders[order_id].status]
            /\ resp' = resp
    /\ UNCHANGED <<products, customers, orders, payments, idempotency_records,
                   audit_logs, gateway>>

\* call_payment_service_with_retry answered 200, then lines 192-196
FR_gateway_authorized ==
    /\ Delivered
    /\ auth.pc = "calling"
    /\ gateway.next <= MaxAuthorizations
    /\ gateway' = [gateway EXCEPT !.next = @ + 1, !.held = @ \cup {gateway.next}]
    /\ orders' = [orders EXCEPT ![auth.order_id].status = "AUTHORIZED",
                                ![auth.order_id].payment_id = gateway.next]
    /\ resp' = Response([op |-> "authorize_payment", order_id |-> auth.order_id,
                         status |-> 200, calls |-> auth.calls,
                         pre_status |-> auth.pre_status])
    /\ auth' = AuthIdle
    /\ UNCHANGED <<products, customers, payments, idempotency_records, audit_logs>>

\* A loop that never gives up.
FR_should_retry_always(retry_count) == TRUE

\* call_payment_service_with_retry lines 268-269 and 296-298: retry_count
\* having been incremented, `if retry_count < MAX_RETRIES`
FR_should_retry(retry_count) == retry_count < MAX_RETRIES

\* call_payment_service_with_retry answered 503 or raised httpx.RequestError
\* (retry_count += 1, sleep or give up with 503), or any other status (402).
\* The response keeps the last answer of the gateway.
FR_gateway_failed(answer) ==
    /\ Delivered
    /\ auth.pc = "calling"
    /\ IF answer \in {"503", "error"}
       THEN IF FR_should_retry(auth.attempt + 1)
            THEN /\ auth' = [auth EXCEPT !.pc = "backoff", !.attempt = @ + 1]
                 /\ resp' = resp
            ELSE /\ auth' = AuthIdle
                 /\ resp' = Response([op |-> "authorize_payment",
                                      order_id |-> auth.order_id, status |-> 503,
                                      calls |-> auth.calls,
                                      answers |-> <<answer>>,
                                      pre_status |-> auth.pre_status])
       ELSE /\ auth' = AuthIdle
            /\ resp' = Response([op |-> "authorize_payment",
                                 order_id |-> auth.order_id, status |-> 402,
                                 calls |-> auth.calls,
                                 answers |-> <<answer>>,
                                 pre_status |-> auth.pre_status])
    /\ UNCHANGED <<products, customers, orders, payments, idempotency_records,
                   audit_logs, gateway>>

\* asyncio.sleep(delay) is over: the loop posts to the gateway again
FR_retry ==
    /\ auth.pc = "backoff"
    /\ auth' = [auth EXCEPT !.pc = "calling", !.calls = @ + 1]
    /\ UNCHANGED <<products, customers, orders, payments, idempotency_records,
                   audit_logs, gateway, resp>>

RECURSIVE FR_restore_stock(_, _)
\* cancel_order lines 232-236
FR_restore_stock(prods, items) ==
    IF items = <<>> THEN prods
    ELSE LET item == Head(items) IN
         FR_restore_stock(
             IF item.product_id \in DOMAIN prods
             THEN FR_update_product_stock(prods, item.product_id,
                                          prods[item.product_id].stock + item.quantity)
             ELSE prods,
             Tail(items))

\* services.void_payment: pass
FR_void_payment(gw, payment_id) == gw

\* OrderService.cancel_order
FR_cancel_order(order_id) ==
    /\ Delivered
    /\ IF order_id \notin DOMAIN orders
       THEN /\ resp' = Response([op |-> "cancel_order", order_id |-> order_id,
                                 status |-> 404, detail |-> "order_not_found"])
            /\ UNCHANGED <<products, orders, gateway>>
       ELSE IF orders[order_id].status \in {"SHIPPED", "CANCELLED"}
       THEN /\ resp' = Response([op |-> "cancel_order", order_id |-> order_id,
                                 status |-> 409,
                                 detail |-> IF orders[order_id].status = "SHIPPED"
                                            THEN "cannot_cancel_shipped"
                                            ELSE "already_cancelled",
                                 pre_status |-> orders[order_id].status])
            /\ UNCHANGED <<products, orders, gateway>>
       ELSE /\ products' = FR_restore_stock(products, orders[order_id].items)
            /\ gateway' = IF orders[order_id].status = "AUTHORIZED"
                             /\ orders[order_id].payment_id # 0
                          THEN FR_void_payment(gateway, orders[order_id].payment_id)
                          ELSE gateway
            /\ orders' = [orders EXCEPT ![order_id].status = "CANCELLED"]
            /\ resp' = Response([op |-> "cancel_order", order_id |-> order_id,
                                 status |-> 200,
                                 pre_status |-> orders[order_id].status])
    /\ UNCHANGED <<customers, payments, idempotency_records, audit_logs, auth>>

InitFR ==
    /\ products = FR_init_database
    /\ customers = {}
    /\ orders = <<>>
    /\ payments = <<>>
    /\ idempotency_records = {}
    /\ audit_logs = <<>>
    /\ gateway = NoGateway
    /\ auth = AuthIdle
    /\ resp = NoResponse

FR_Amounts == {1} \cup {orders[id].total_amount : id \in DOMAIN orders}

NextFR ==
    \/ \E request \in FR_Requests, email \in Emails,
          idempotency_key \in FR_Keys \cup {NoKey} :
          FR_create_order(request, email, idempotency_key)
    \/ \E order_id \in 1..MaxOrders, amount \in FR_Amounts :
          FR_authorize_payment(order_id, amount)
    \/ FR_gateway_authorized
    \/ \E answer \in {"503", "error", "400", "500"} : FR_gateway_failed(answer)
    \/ FR_retry
    \/ \E order_id \in 1..MaxOrders : FR_cancel_order(order_id)
    \/ send_response

SpecFR == InitFR /\ [][NextFR]_vars

(***************************************************************************)
(* fastapi-rewrite, OrderService called from two threads                   *)
(*                                                                         *)
(* The dictionaries of database.py are guarded by one threading.Lock each, *)
(* taken by every function of the module for the length of that function.  *)
(* get_product returns the stored Product itself; the services read its    *)
(* stock and hand the new value to update_product_stock, each read and     *)
(* the write being a step of its own that another thread can come between. *)
(* Here auth holds the position of each thread and the orders have one     *)
(* item.                                                                   *)
(***************************************************************************)
FRT_Threads == {1, 2}

FRT_Idle == [pc |-> "idle", op |-> "none", item |-> <<>>, email |-> "none",
             key |-> NoKey, order_id |-> 0, new_stock |-> 0]

\* create_order lines 54-93: check_idempotency_key, get_product and the
\* stock check of the item; a rejected call ends here.
FRT_create_order(t, item, email, idempotency_key) ==
    /\ auth[t].pc = "idle"
    /\ Len(orders) + Cardinality({u \in FRT_Threads : auth[u].op = "create_order"})
           < MaxOrders
    /\ auth' = [auth EXCEPT ![t] =
            IF \/ FR_check_idempotency_key(idempotency_records, idempotency_key) # {}
               \/ item.product_id \notin DOMAIN products
               \/ products[item.product_id].stock < item.quantity
            THEN FRT_Idle
            ELSE [FRT_Idle EXCEPT !.pc = "checked", !.op = "create_order",
                                  !.item = item, !.email = email,
                                  !.key = idempotency_key]]
    /\ UNCHANGED <<products, customers, orders, payments, idempotency_records,
                   audit_logs, gateway, resp>>

\* cancel_order lines 206-235: get_order, the status checks and get_product
\* for the item of the order.
FRT_cancel_order(t, order_id) ==
    /\ auth[t].pc = "idle"
    /\ order_id \in DOMAIN orders
    /\ auth' = [auth EXCEPT ![t] =
            IF orders[order_id].status \in {"SHIPPED", "CANCELLED"}
            THEN FRT_Idle
            ELSE [FRT_Idle EXCEPT !.pc = "checked", !.op = "cancel_order",
                                  !.order_id = order_id,
                                  !.item = orders[order_id].items[1]]]
    /\ UNCHANGED <<products, customers, orders, payments, idempotency_records,
                   audit_logs, gateway, resp>>

\* create_order line 95 and cancel_order line 235:
\* new_stock = product.stock -/+ quantity, read from the stored Product now
FRT_new_stock(t) ==
    /\ auth[t].pc = "checked"
    /\ auth' = [auth EXCEPT
                  ![t].pc = "computed",
                  ![t].new_stock =
                      IF auth[t].op = "create_order"
                      THEN products[auth[t].item.product_id].stock - auth[t].item.quantity
                      ELSE products[auth[t].item.product_id].stock + auth[t].item.quantity]
    /\ UNCHANGED <<products, customers, orders, payments, idempotency_records,
                   audit_logs, gateway, resp>>

\* create_order line 96 and cancel_order line 236: db.update_product_stock
FRT_update_product_stock(t) ==
    /\ auth[t].pc = "computed"
    /\ products' = FR_update_product_stock(products, auth[t].item.product_id,
                                           auth[t].new_stock)
    /\ auth' = [auth EXCEPT ![t].pc = "updated"]
    /\ UNCHANGED <<customers, orders, payments, idempotency_records, audit_logs,
                   gateway, resp>>

\* create_order lines 112-130: db.create_order and save_idempotency_record
\* (which replaces the record of the key)
FRT_save_order(t) ==
    /\ auth[t].pc = "updated"
    /\ auth[t].op = "create_order"
    /\ LET subtotal == products[auth[t].item.product_id].price * auth[t].item.quantity IN
       orders' = Append(orders,
                    [customer_email |-> auth[t].email, status |-> "CREATED",
                     items |-> <<[product_id |-> auth[t].item.product_id,
                                  quantity |-> auth[t].item.quantity,
                                  price |-> products[auth[t].item.product_id].price]>>,
                     total_amount |-> subtotal - FR_calculate_discount(subtotal),
                     payment_id |-> 0])
    /\ idempotency_records' =
           (idempotency_records
                \ FR_check_idempotency_key(idempotency_records, auth[t].key))
               \cup {[idempotency_key |-> auth[t].key, order_id |-> Len(orders) + 1]}
    /\ auth' = [auth EXCEPT ![t] = FRT_Idle]
    /\ UNCHANGED <<products, customers, payments, audit_logs, gateway, resp>>

\* cancel_order lines 238-241: the order is not AUTHORIZED here (no payment
\* is authorized in this specification), db.update_order_status
FRT_update_order_status(t) ==
    /\ auth[t].pc = "updated"
    /\ auth[t].op = "cancel_order"
    /\ orders' = [orders EXCEPT ![auth[t].order_id].status = "CANCELLED"]
    /\ auth' = [auth EXCEPT ![t] = FRT_Idle]
    /\ UNCHANGED <<products, customers, payments, idempotency_records, audit_logs,
                   gateway, resp>>

InitFRThreads ==
    /\ products = FR_init_database
    /\ customers = {}
    /\ orders = <<>>
    /\ payments = <<>>
    /\ idempotency_records = {}
    /\ audit_logs = <<>>
    /\ gateway = NoGateway
    /\ auth = [t \in FRT_Threads |-> FRT_Idle]
    /\ resp = NoResponse

NextFRThreads ==
    \/ \E t \in FRT_Threads, item \in FR_ItemRequests, email \in Emails,
          idempotency_key \in FR_Keys :
          FRT_create_order(t, item, email, idempotency_key)
    \/ \E t \in FRT_Threads, order_id \in 1..MaxOrders : FRT_cancel_order(t, order_id)
    \/ \E t \in FRT_Threads : FRT_new_stock(t)
    \/ \E t \in FRT_Threads : FRT_update_product_stock(t)
    \/ \E t \in FRT_Threads : FRT_save_order(t)
    \/ \E t \in FRT_Threads : FRT_update_order_status(t)

SpecFRThreads == InitFRThreads /\ [][NextFRThreads]_vars

(***************************************************************************)
(* Properties of fastapi-rewrite                                            *)
(***************************************************************************)

\* Position of a status in the order lifecycle; CANCELLED ends every path.
FR_rank(status) ==
    CASE status = "CREATED" -> 1
      [] status = "AUTHORIZED" -> 2
      [] status = "SHIPPED" -> 3
      [] status = "CANCELLED" -> 4

\* C2: order status only moves forward: an order that is CANCELLED or
\* SHIPPED keeps that status, and no order goes back to an earlier status.
C2_StatusOnlyMovesForward ==
    [][\A id \in DOMAIN orders :
          /\ orders[id].status \in {"CANCELLED", "SHIPPED"}
                => orders'[id].status = orders[id].status
          /\ FR_rank(orders'[id].status) >= FR_rank(orders[id].status)]_vars

\* C7: a create_order that fails on a line item (unknown product or
\* insufficient stock) leaves every product's stock as it was and stores no
\* order.
C7_FailedCreateRestoresStock ==
    [][(resp.op = "none" /\ resp'.op = "create_order"
          /\ resp'.detail \in {"product_not_found", "insufficient_stock"})
       => /\ products' = products
          /\ orders' = orders]_vars

\* C18: in call_payment_service_with_retry every 5xx answer of the gateway
\* (not only 503) and every network or timeout error is retried while
\* attempts remain: an authorization that ends on such an answer has made
\* MAX_RETRIES calls; only a 4xx answer ends it on the first call.
C18_Every5xxRetried ==
    (resp.op = "authorize_payment" /\ resp.answers # <<>>
        /\ resp.answers[1] \in {"500", "503", "error"})
    => /\ resp.calls = MAX_RETRIES
       /\ resp.status = 503

\* C29: call_payment_service_with_retry always ends after at most
\* MAX_RETRIES gateway calls, whatever the gateway answers: the calls of an
\* authorization never exceed MAX_RETRIES and the loop waits for another
\* call only while calls remain (every call is bounded by its timeout).
C29_AtMostMaxRetriesCalls ==
    /\ auth.calls <= MAX_RETRIES
    /\ resp.calls <= MAX_RETRIES
    /\ auth.pc = "backoff" => auth.calls < MAX_RETRIES
    /\ (resp.op = "authorize_payment" /\ resp.answers # <<>>
           /\ resp.answers[1] \in {"503", "error"})
       => resp.calls = MAX_RETRIES

\* The gateway refused MAX_RETRIES calls and the request ended in 503.
C29_Witness ==
    /\ resp.op = "authorize_payment"
    /\ resp.status = 503
    /\ resp.calls = MAX_RETRIES
    /\ auth.pc = "idle"

\* The quantity of a product held by the orders that are not cancelled.
FR_held(product_id) ==
    SumSeq([i \in 1..Len(orders) |->
              IF orders[i].status = "CANCELLED" THEN 0
              ELSE SumSeq([j \in 1..Len(orders[i].items) |->
                             IF orders[i].items[j].product_id = product_id
                             THEN orders[i].items[j].quantity ELSE 0])])

\* C30: across any sequence of create, authorize-payment and cancel calls
\* the quantities of an order are added back to stock at most once: for
\* every product the stock plus the quantity held by the orders that are
\* not cancelled never exceeds the initial stock.
C30_StockRestoredAtMostOnce ==
    \A product_id \in DOMAIN products :
        products[product_id].stock + FR_held(product_id)
            <= FR_init_database[product_id].stock

\* C31: when cancel_order for an order completes while authorize_payment
\* for the same order is awaiting the gateway, the order stays CANCELLED:
\* the resuming authorization does not overwrite its status.
C31_CancelDuringAuthorizeSticks ==
    [][(/\ auth.pc \in {"calling", "backoff"}
        /\ auth.pre_status # "CANCELLED"
        /\ orders[auth.order_id].status = "CANCELLED")
       => orders'[auth.order_id].status = "CANCELLED"]_vars

\* C32: the gateway authorizes at most once per order: an authorize-payment
\* call on an order that is already AUTHORIZED makes no gateway call and
\* does not replace the stored payment id.
C32_AuthorizedOnlyOnce ==
    [][\A id \in DOMAIN orders :
          orders[id].status = "AUTHORIZED"
          => /\ orders'[id].payment_id = orders[id].payment_id
             /\ ~(auth.pc = "idle" /\ auth'.pc = "calling" /\ auth'.order_id = id)]_vars

\* C33: the in-memory store is thread-safe for stock: with create_order and
\* cancel_order called concurrently no decrement or restore is lost and the
\* quantity sold never exceeds the initial stock: stock is never negative
\* and, no call being under way, stock plus the quantity held by the
\* orders that are not cancelled is the initial stock.
C33_StockThreadSafe ==
    \A product_id \in DOMAIN products :
        /\ products[product_id].stock >= 0
        /\ (\A t \in FRT_Threads : auth[t].pc = "idle")
           => products[product_id].stock + FR_held(product_id)
                  = FR_init_database[product_id].stock

(***************************************************************************)
(* fastapi_legacyshop: OrderService and PaymentService on SQLAlchemy        *)
(***************************************************************************)

MaxPayments == 2

\* stop_after_attempt(2)
FL_max_attempts == 2

\* python-fastapi-rewrite PaymentService.authorize_payment: stop_after_attempt(2)
PR_max_attempts == 2

\* The seeded catalogue, one product, stock scaled to InitStock
FL_seed ==
    [product_id \in {1} |-> [price |-> 1000, stock_quantity |-> InitStock,
                             active |-> TRUE]]

FL_Requests ==
    {<<item>> : item \in [product_id : {1}, quantity : 1..MaxQty]
                            \cup [product_id : {9}, quantity : {1}]}

FL_Idle == [pc |-> "idle", order_id |-> 0, payment |-> 0, attempt |-> 0,
            calls |-> 0, answers |-> <<>>, pre_status |-> "NONE",
            session |-> <<>>]

\* DiscountService.calculate_discount: the highest tier reached
FL_calculate_discount(subtotal) ==
    IF subtotal >= tier3_threshold THEN (subtotal * tier3_discount) \div 100
    ELSE IF subtotal >= tier2_threshold THEN (subtotal * tier2_discount) \div 100
    ELSE IF subtotal >= tier1_threshold THEN (subtotal * tier1_discount) \div 100
    ELSE 0

\* Product.is_available
FL_is_available(product) == product.active /\ product.stock_quantity > 0

RECURSIVE FL_process_items(_, _)
\* create_order lines 54-80, on the session's uncommitted rows
FL_process_items(st, items) ==
    IF items = <<>> \/ st.status # 0 THEN st
    ELSE LET item_request == Head(items) IN
         IF item_request.product_id \notin DOMAIN st.products
         THEN [st EXCEPT !.status = 404, !.error = "ProductNotFoundError"]
         ELSE LET product == st.products[item_request.product_id] IN
              IF ~FL_is_available(product)
              THEN [st EXCEPT !.status = 400, !.error = "BusinessValidationError"]
              ELSE IF product.stock_quantity < item_request.quantity
              THEN [st EXCEPT !.status = 409, !.error = "InsufficientStockError"]
              ELSE FL_process_items(
                      [st EXCEPT
                         !.products[item_request.product_id].stock_quantity =
                             @ - item_request.quantity,
                         !.items = Append(@, [product_id |-> item_request.product_id,
                                              quantity |-> item_request.quantity,
                                              unit_price |-> product.price]),
                         !.subtotal = @ + product.price * item_request.quantity],
                      Tail(items))

\* routers/orders.py create_order and OrderService.create_order
FL_create_order(order_request, email, idempotency_key) ==
    LET existing_record ==
            IF idempotency_key # NoKey
            THEN {r \in idempotency_records : r.idempotency_key = idempotency_key}
            ELSE {}
        st == FL_process_items(
                  [products |-> products, items |-> <<>>, subtotal |-> 0,
                   status |-> 0, error |-> "none"], order_request)
        discount_amount == FL_calculate_discount(st.subtotal)
        id == Len(orders) + 1
        order == [customer |-> email, status |-> "PENDING",
                  idempotency_key |-> idempotency_key, items |-> st.items,
                  subtotal |-> st.subtotal, discount_amount |-> discount_amount,
                  total |-> st.subtotal - discount_amount]
        order_response == [id |-> id, status |-> "PENDING",
                           subtotal |-> order.subtotal,
                           discountAmount |-> discount_amount,
                           total |-> order.total,
                           idempotencyKey |-> idempotency_key]
    IN
    /\ Delivered
    /\ IF existing_record # {}
       THEN LET record == CHOOSE r \in existing_record : TRUE IN
            /\ resp' = Response([op |-> "create_order", key |-> idempotency_key,
                                 request |-> order_request, status |-> 200,
                                 order_id |-> record.resource_id,
                                 body |-> record.response_body])
            /\ UNCHANGED <<products, customers, orders, idempotency_records,
                           audit_logs>>
       ELSE IF st.status # 0 \/ order.total < MinTotal
       THEN /\ resp' = Response([op |-> "create_order", key |-> idempotency_key,
                                 request |-> order_request,
                                 status |-> IF st.status # 0 THEN st.status ELSE 400,
                                 error |-> IF st.status # 0 THEN st.error
                                           ELSE "BusinessValidationError",
                                 partial |-> Len(st.items)])
            /\ UNCHANGED <<products, customers, orders, idempotency_records,
                           audit_logs>>
       ELSE /\ Len(orders) < MaxOrders
            /\ products' = st.products
            /\ customers' = customers \cup {email}
            /\ orders' = Append(orders, order)
            /\ idempotency_records' =
                   IF idempotency_key # NoKey
                   THEN idempotency_records
                            \cup {[idempotency_key |-> idempotency_key,
                                   resource_id |-> id,
                                   response_body |-> order_response]}
                   ELSE idempotency_records
            /\ audit_logs' = audit_logs
                   \o [i \in 1..Len(st.items) |->
                          [entity_type |-> "Product",
                           entity_id |-> st.items[i].product_id,
                           action |-> "STOCK_DECREMENTED"]]
                   \o IF idempotency_key # NoKey
                      THEN <<[entity_type |-> "OrderEntity", entity_id |-> id,
                              action |-> "ORDER_CREATED"]>>
                      ELSE <<>>
            /\ resp' = Response([op |-> "create_order", key |-> idempotency_key,
                                 request |-> order_request, status |-> 201,
                                 order_id |-> id, body |-> order_response,
                                 partial |-> Len(st.items)])
    /\ UNCHANGED <<payments, gateway, auth>>

\* POST /api/orders/{order_id}/authorize-payment: the router and
\* OrderService.authorize_payment, which checks the order and does nothing.
FL_post_authorize_payment(order_id) ==
    /\ Delivered
    /\ resp' = IF order_id \notin DOMAIN orders
               THEN Response([op |-> "post_authorize_payment", order_id |-> order_id,
                              status |-> 404, error |-> "OrderNotFoundError"])
               ELSE IF orders[order_id].status # "PENDING"
               THEN Response([op |-> "post_authorize_payment", order_id |-> order_id,
                              status |-> 400, error |-> "BusinessValidationError",
                              pre_status |-> orders[order_id].status])
               ELSE Response([op |-> "post_authorize_payment", order_id |-> order_id,
                              status |-> 200, detail |-> "initiated",
                              pre_status |-> orders[order_id].status])
    /\ UNCHANGED <<products, customers, orders, payments, idempotency_records,
                   audit_logs, gateway, auth>>

\* The Payment rows of an order
FL_payments_of(order_id) ==
    {p \in DOMAIN payments : payments[p].order_id = order_id}

\* PaymentService.authorize_payment lines 18-27: the PENDING row is flushed
\* in the session and the first gateway call is made.
FL_authorize_payment(order_id) ==
    /\ Delivered
    /\ auth.pc = "idle"
    /\ order_id \in DOMAIN orders
    /\ Len(payments) < MaxPayments
    /\ auth' = [FL_Idle EXCEPT !.pc = "calling", !.order_id = order_id,
                               !.attempt = 1, !.calls = 1,
                               !.pre_status = orders[order_id].status]
    /\ UNCHANGED <<products, customers, orders, payments, idempotency_records,
                   audit_logs, gateway, resp>>

\* The row PaymentService.authorize_payment commits when it ends
FL_payment_row(status, external_payment_id) ==
    [order_id |-> auth.order_id, amount |-> orders[auth.order_id].total,
     status |-> status, external_payment_id |-> external_payment_id,
     retry_count |-> auth.attempt]

\* The gateway answers below 400: lines 29-37.  external_payment_id is the
\* answer's "transaction_id", None (0) when the answer carries none.
FL_gateway_authorized(has_transaction_id) ==
    /\ Delivered
    /\ auth.pc = "calling"
    /\ gateway' = [gateway EXCEPT !.next = @ + 1, !.held = @ \cup {gateway.next}]
    /\ payments' = Append(payments,
                          FL_payment_row("AUTHORIZED",
                              IF has_transaction_id THEN gateway.next ELSE 0))
    /\ resp' = Response([op |-> "authorize_payment", order_id |-> auth.order_id,
                         status |-> 200, calls |-> auth.calls,
                         attempts |-> auth.attempt,
                         answers |-> Append(auth.answers, "2xx"),
                         pre_status |-> auth.pre_status, payment_writes |-> 1])
    /\ auth' = FL_Idle
    /\ UNCHANGED <<products, customers, orders, idempotency_records, audit_logs>>

\* A retry policy that gives up after the first attempt.
FL_should_retry_never(answer, attempt) == FALSE

\* _authorize_with_retry's @retry: retry_if_exception_type(PaymentGatewayError)
\* (raised for a status >= 500 and for a timeout), stop_after_attempt(2)
FL_should_retry(answer, attempt) == answer # "4xx" /\ attempt < FL_max_attempts

\* _authorize_with_retry raised: PaymentGatewayError (status >= 500, timeout)
\* is retried until stop_after_attempt(2), PaymentError (4xx) is not; then
\* lines 39-59 commit the row as FAILED.
FL_gateway_failed(answer) ==
    /\ Delivered
    /\ auth.pc = "calling"
    /\ IF FL_should_retry(answer, auth.attempt)
       THEN /\ auth' = [auth EXCEPT !.pc = "backoff", !.answers = Append(@, answer)]
            /\ UNCHANGED <<payments, resp>>
       ELSE /\ payments' = Append(payments, FL_payment_row("FAILED", 0))
            /\ resp' = Response([op |-> "authorize_payment",
                                 order_id |-> auth.order_id,
                                 status |-> IF answer = "4xx" THEN 400 ELSE 502,
                                 error |-> IF answer = "4xx" THEN "PaymentError"
                                           ELSE "PaymentGatewayError",
                                 calls |-> auth.calls, attempts |-> auth.attempt,
                                 answers |-> Append(auth.answers, answer),
                                 pre_status |-> auth.pre_status,
                                 payment_writes |-> 1])
            /\ auth' = FL_Idle
    /\ UNCHANGED <<products, customers, orders, idempotency_records, audit_logs,
                   gateway>>

\* tenacity's wait_fixed(1) is over
FL_authorize_retry ==
    /\ auth.pc = "backoff"
    /\ auth' = [auth EXCEPT !.pc = "calling", !.attempt = @ + 1, !.calls = @ + 1]
    /\ UNCHANGED <<products, customers, orders, payments, idempotency_records,
                   audit_logs, gateway, resp>>

\* A cancel that restores nothing.
FL_restore_stock_none(prods, items) == prods

RECURSIVE FL_restore_stock(_, _)
\* cancel_order lines 146-151, on the session's rows
FL_restore_stock(prods, items) ==
    IF items = <<>> THEN prods
    ELSE LET item == Head(items) IN
         FL_restore_stock(
             IF item.product_id \in DOMAIN prods
             THEN [prods EXCEPT ![item.product_id].stock_quantity = @ + item.quantity]
             ELSE prods,
             Tail(items))

\* Order.can_be_cancelled
FL_can_be_cancelled(order) == order.status \in {"PENDING", "PAID"}

\* The product rows a cancel's session holds win over what is committed
FL_flush_products(order_id, session) ==
    [product_id \in DOMAIN products |->
        IF \E i \in 1..Len(orders[order_id].items) :
              orders[order_id].items[i].product_id = product_id
        THEN session[product_id] ELSE products[product_id]]

\* The STOCK_INCREMENTED audit rows cancel_order added in its loop
FL_stock_incremented(order_id) ==
    [i \in 1..Len(orders[order_id].items) |->
        [entity_type |-> "Product",
         entity_id |-> orders[order_id].items[i].product_id,
         action |-> "STOCK_INCREMENTED"]]

\* cancel_order lines 156-157 after void_payment returned without having
\* committed (no payment to void, no external id, an answer other than 200,
\* an exception): the session's product rows and the CANCELLED status are
\* committed in one commit.
FL_cancel_commit(order_id, session, payment, void) ==
    /\ products' = FL_flush_products(order_id, session)
    /\ orders' = [orders EXCEPT ![order_id].status = "CANCELLED"]
    /\ audit_logs' = audit_logs
           \o FL_stock_incremented(order_id)
           \o IF void = "error"
              THEN <<[entity_type |-> "Payment", entity_id |-> payment,
                      action |-> "PAYMENT_FAILED"]>>
              ELSE <<>>
    /\ resp' = Response([op |-> "cancel_order", order_id |-> order_id,
                         status |-> 200, answers |-> <<void>>,
                         pre_status |-> IF auth.pc = "voiding" THEN auth.pre_status
                                        ELSE orders[order_id].status,
                         payment_writes |-> 0])
    /\ auth' = FL_Idle
    /\ UNCHANGED <<customers, payments, idempotency_records, gateway>>

\* void_payment lines 113-115, the void endpoint having answered 200: the
\* commit writes the payment as VOIDED and with it everything the session
\* holds, the restored stock included; the order is not CANCELLED yet.
FL_void_commit(order_id, session, payment) ==
    /\ products' = FL_flush_products(order_id, session)
    /\ payments' = [payments EXCEPT ![payment].status = "VOIDED"]
    /\ gateway' = [gateway EXCEPT
                     !.held = @ \ {payments[payment].external_payment_id},
                     !.voided = @ \cup {payments[payment].external_payment_id}]
    /\ audit_logs' = audit_logs \o FL_stock_incremented(order_id)
    /\ auth' = [auth EXCEPT !.pc = "voided"]
    /\ UNCHANGED <<customers, orders, idempotency_records, resp>>

\* cancel_order lines 156-157 after void_payment committed: the AsyncClient
\* has been closed, the CANCELLED status and the PAYMENT_VOIDED audit row
\* are committed.
FL_cancel_finish ==
    /\ Delivered
    /\ auth.pc = "voided"
    /\ orders' = [orders EXCEPT ![auth.order_id].status = "CANCELLED"]
    /\ audit_logs' = Append(audit_logs, [entity_type |-> "Payment",
                                         entity_id |-> auth.payment,
                                         action |-> "PAYMENT_VOIDED"])
    /\ resp' = Response([op |-> "cancel_order", order_id |-> auth.order_id,
                         status |-> 200, answers |-> <<"200">>,
                         pre_status |-> auth.pre_status, payment_writes |-> 1])
    /\ auth' = FL_Idle
    /\ UNCHANGED <<products, customers, payments, idempotency_records, gateway>>

\* routers/orders.py cancel_order and OrderService.cancel_order up to the
\* await in void_payment.  order.payment is one of the order's Payment rows.
FL_cancel_order(order_id) ==
    /\ Delivered
    /\ auth.pc = "idle"
    /\ IF order_id \notin DOMAIN orders
       THEN /\ resp' = Response([op |-> "cancel_order", order_id |-> order_id,
                                 status |-> 404, error |-> "OrderNotFoundError"])
            /\ UNCHANGED <<products, customers, orders, payments,
                           idempotency_records, audit_logs, gateway, auth>>
       ELSE IF ~FL_can_be_cancelled(orders[order_id])
       THEN /\ resp' = Response([op |-> "cancel_order", order_id |-> order_id,
                                 status |-> 400, error |-> "BusinessValidationError",
                                 pre_status |-> orders[order_id].status])
            /\ UNCHANGED <<products, customers, orders, payments,
                           idempotency_records, audit_logs, gateway, auth>>
       ELSE LET session == FL_restore_stock(products, orders[order_id].items) IN
            IF FL_payments_of(order_id) = {}
            THEN FL_cancel_commit(order_id, session, 0, "no_payment")
            ELSE \E payment \in FL_payments_of(order_id) :
                    IF payments[payment].status # "AUTHORIZED"
                    THEN FL_cancel_commit(order_id, session, payment, "not_authorized")
                    ELSE IF payments[payment].external_payment_id = 0
                    THEN FL_cancel_commit(order_id, session, payment, "no_external_id")
                    ELSE /\ auth' = [FL_Idle EXCEPT
                                       !.pc = "voiding", !.order_id = order_id,
                                       !.payment = payment, !.calls = 1,
                                       !.pre_status = orders[order_id].status,
                                       !.session = session]
                         /\ UNCHANGED <<products, customers, orders, payments,
                                        idempotency_records, audit_logs, gateway,
                                        resp>>

\* The gateway's void endpoint answers 200 or another status, or the call
\* raises: void_payment lines 113-122, then cancel_order goes on.
FL_void_answered(answer) ==
    /\ Delivered
    /\ auth.pc = "voiding"
    /\ IF answer = "200"
       THEN FL_void_commit(auth.order_id, auth.session, auth.payment)
       ELSE FL_cancel_commit(auth.order_id, auth.session, auth.payment, answer)

InitFL ==
    /\ products = FL_seed
    /\ customers = {}
    /\ orders = <<>>
    /\ payments = <<>>
    /\ idempotency_records = {}
    /\ audit_logs = <<>>
    /\ gateway = NoGateway
    /\ auth = FL_Idle
    /\ resp = NoResponse

NextFL ==
    \/ \E order_request \in FL_Requests, email \in Emails,
          idempotency_key \in Keys \cup {NoKey} :
          FL_create_order(order_request, email, idempotency_key)
    \/ \E order_id \in 1..MaxOrders : FL_authorize_payment(order_id)
    \/ \E order_id \in 1..MaxOrders + 1 : FL_post_authorize_payment(order_id)
    \/ \E has_transaction_id \in BOOLEAN : FL_gateway_authorized(has_transaction_id)
    \/ \E answer \in {"4xx", "5xx", "timeout"} : FL_gateway_failed(answer)
    \/ FL_authorize_retry
    \/ \E order_id \in 1..MaxOrders : FL_cancel_order(order_id)
    \/ \E answer \in {"200", "500", "error"} : FL_void_answered(answer)
    \/ FL_cancel_finish
    \/ send_response

SpecFL == InitFL /\ [][NextFL]_vars

(***************************************************************************)
(* Properties of fastapi_legacyshop                                         *)
(***************************************************************************)

\* C5: a cancel never leaves the order CANCELLED while a Payment of it is
\* still AUTHORIZED; when the void did not succeed (an answer other than
\* 200, an exception, no external id) the cancel fails and the order keeps
\* the status it had.
C5_CancelNeverLeavesAuthorizedPayment ==
    (resp.op = "cancel_order" /\ resp.order_id \in DOMAIN orders)
    => /\ (orders[resp.order_id].status = "CANCELLED"
              /\ resp.pre_status # "CANCELLED")
          => \A p \in FL_payments_of(resp.order_id) :
                payments[p].status # "AUTHORIZED"
       /\ (resp.answers # <<>>
              /\ resp.answers[1] \in {"500", "error", "no_external_id"})
          => /\ resp.status >= 400
             /\ orders[resp.order_id].status = resp.pre_status
\* C16: whenever POST /api/orders/{id}/authorize-payment returns 200 for a
\* PENDING order, the order is PAID afterwards and has a Payment in status
\* AUTHORIZED.
C16_AuthorizeRouteMarksPaid ==
    (resp.op = "post_authorize_payment" /\ resp.status = 200
        /\ resp.pre_status = "PENDING")
    => /\ orders[resp.order_id].status = "PAID"
       /\ \E p \in FL_payments_of(resp.order_id) : payments[p].status = "AUTHORIZED"

\* C17: when the gateway answers 5xx or times out on every attempt,
\* PaymentService.authorize_payment makes exactly 2 gateway calls, the
\* Payment ends FAILED with retry_count 2 and the error raised is the
\* retryable PaymentGatewayError.
C17_RetryExhausted ==
    (resp.op = "authorize_payment" /\ resp.answers # <<>>
        /\ \A i \in DOMAIN resp.answers : resp.answers[i] \in {"5xx", "timeout"})
    => /\ resp.calls = 2
       /\ Len(resp.answers) = 2
       /\ resp.error = "PaymentGatewayError"
       /\ payments[Len(payments)].order_id = resp.order_id
       /\ payments[Len(payments)].status = "FAILED"
       /\ payments[Len(payments)].retry_count = 2

\* The gateway answered 5xx and then timed out (or the other way round).
C17_Witness ==
    /\ resp.op = "authorize_payment"
    /\ resp.answers \in {<<"5xx", "timeout">>, <<"timeout", "5xx">>, <<"5xx", "5xx">>}
    /\ resp.error = "PaymentGatewayError"
    /\ payments # <<>>
    /\ payments[Len(payments)].status = "FAILED"

C22_CancelIsOneUnit ==
    \A p \in DOMAIN payments :
        payments[p].status = "VOIDED"
        => orders[payments[p].order_id].status = "CANCELLED"
\* C25: PaymentService.authorize_payment commits the Payment row in its
\* initial PENDING status before the gateway is called: while the call (or
\* the wait before the next call) is in progress the committed tables hold
\* the PENDING row of the order, so a crash during the call leaves it.
C25_PendingPaymentCommittedBeforeCall ==
    auth.pc \in {"calling", "backoff"}
    => \E p \in FL_payments_of(auth.order_id) : payments[p].status = "PENDING"
\* C26: every successfully created order has a committed ORDER_CREATED
\* audit record and every successfully cancelled order a committed
\* ORDER_CANCELLED audit record, with or without an Idempotency-Key.
C26_OrderAuditCommitted ==
    \A id \in DOMAIN orders :
        /\ \E i \in DOMAIN audit_logs :
              /\ audit_logs[i].entity_type = "OrderEntity"
              /\ audit_logs[i].entity_id = id
              /\ audit_logs[i].action = "ORDER_CREATED"
        /\ orders[id].status = "CANCELLED"
           => \E i \in DOMAIN audit_logs :
                 /\ audit_logs[i].entity_type = "OrderEntity"
                 /\ audit_logs[i].entity_id = id
                 /\ audit_logs[i].action = "ORDER_CANCELLED"
(***************************************************************************)
(* python-fastapi-rewrite: OrderService and PaymentService on an           *)
(* AsyncSession.  get_db commits the session when the handler returns and  *)
(* rolls it back when it raises, so a request changes the tables at its    *)
(* end or not at all.  Requests are issued one at a time: the next one     *)
(* arrives when the one before has been answered.                          *)
(***************************************************************************)

\* seed_test_data: the laptop and the mouse, stock scaled to InitStock
PR_seed ==
    [sku \in {"LAPTOP-001", "MOUSE-001"} |->
        [price |-> IF sku = "LAPTOP-001" THEN 120000 ELSE 2500,
         stock_quantity |-> InitStock, active |-> TRUE]]

\* One-item requests for a seeded or an unknown product.
PR_Requests ==
    {<<item>> : item \in [product_sku : {"MOUSE-001"}, quantity : 1..MaxQty]
                            \cup [product_sku : {"LAPTOP-001", "UNKNOWN-SKU"},
                                  quantity : {1}]}

\* DiscountService.DISCOUNT_TIERS, in cents and percent
PR_DISCOUNT_TIERS == <<<<100000, 10>>, <<50000, 5>>>>

\* DiscountService.calculate_discount: the first tier reached (exact for
\* the seeded prices, whose multiples times the rate are whole cents)
PR_calculate_discount(subtotal) ==
    LET reached == {i \in DOMAIN PR_DISCOUNT_TIERS : subtotal >= PR_DISCOUNT_TIERS[i][1]} IN
    IF reached = {} THEN 0
    ELSE LET first == CHOOSE i \in reached : \A k \in reached : i <= k IN
         (subtotal * PR_DISCOUNT_TIERS[first][2]) \div 100

\* OrderService._process_order_item, on the session's rows
PR_process_order_item(session, item_request) ==
    LET sku == item_request.product_sku IN
    IF sku \notin DOMAIN session.products
    THEN [session EXCEPT !.status = 404, !.error = "ResourceNotFound"]
    ELSE LET product == session.products[sku] IN
         IF ~product.active \/ product.stock_quantity < item_request.quantity
         THEN [session EXCEPT !.status = 400, !.error = "BusinessValidation"]
         ELSE [session EXCEPT
                 !.items = Append(@, [product_sku |-> sku,
                                      quantity |-> item_request.quantity,
                                      unit_price |-> product.price,
                                      subtotal |-> product.price * item_request.quantity]),
                 !.products[sku].stock_quantity = @ - item_request.quantity]

RECURSIVE PR_process_order_items(_, _)
\* create_order lines 248-249
PR_process_order_items(session, items) ==
    IF items = <<>> \/ session.status # 0 THEN session
    ELSE PR_process_order_items(PR_process_order_item(session, Head(items)), Tail(items))

\* OrderResponse.from_order
PR_from_order(order, id) ==
    [id |-> id, status |-> order.status, subtotal |-> order.subtotal,
     discountAmount |-> order.discount_amount, total |-> order.total,
     idempotencyKey |-> order.idempotency_key]

\* main.create_order and OrderService.create_order, committed by get_db
PR_create_order(request, email, idempotency_key) ==
    LET existing == IF idempotency_key # NoKey
                    THEN {id \in DOMAIN orders :
                             orders[id].idempotency_key = idempotency_key}
                    ELSE {}
        session == PR_process_order_items(
                       [products |-> products, items |-> <<>>, status |-> 0,
                        error |-> "none"], request)
        subtotal == SumSeq([i \in 1..Len(session.items) |-> session.items[i].subtotal])
        discount_amount == PR_calculate_discount(subtotal)
        id == Len(orders) + 1
        order == [customer |-> email, status |-> "PENDING",
                  idempotency_key |-> idempotency_key, items |-> session.items,
                  subtotal |-> subtotal, discount_amount |-> discount_amount,
                  total |-> subtotal - discount_amount]
    IN
    /\ Delivered
    /\ auth.pc = "idle"
    /\ IF existing # {}
       THEN LET found == CHOOSE id_ \in existing : TRUE IN
            /\ resp' = Response([op |-> "create_order", key |-> idempotency_key,
                                 request |-> request, status |-> 201,
                                 order_id |-> found,
                                 body |-> PR_from_order(orders[found], found)])
            /\ UNCHANGED <<products, customers, orders, idempotency_records,
                           audit_logs>>
       ELSE IF session.status # 0 \/ order.total < MinTotal
       THEN /\ resp' = Response([op |-> "create_order", key |-> idempotency_key,
                                 request |-> request,
                                 status |-> IF session.status # 0 THEN session.status
                                            ELSE 400,
                                 error |-> IF session.status # 0 THEN session.error
                                           ELSE "BusinessValidation",
                                 partial |-> Len(session.items)])
            /\ UNCHANGED <<products, customers, orders, idempotency_records,
                           audit_logs>>
       ELSE /\ Len(orders) < MaxOrders
            /\ products' = session.products
            /\ customers' = customers \cup {email}
            /\ orders' = Append(orders, order)
            /\ idempotency_records' =
                   IF idempotency_key # NoKey
                   THEN idempotency_records
                            \cup {[idempotency_key |-> idempotency_key,
                                   operation_type |-> "ORDER_CREATE",
                                   result_entity_id |-> id,
                                   result_data |-> "PENDING"]}
                   ELSE idempotency_records
            /\ audit_logs' = Append(audit_logs, [entity_type |-> "ORDER",
                                                 entity_id |-> id,
                                                 action |-> "CREATE"])
            /\ resp' = Response([op |-> "create_order", key |-> idempotency_key,
                                 request |-> request, status |-> 201,
                                 order_id |-> id, body |-> PR_from_order(order, id),
                                 partial |-> Len(session.items)])
    /\ UNCHANGED <<payments, gateway, auth>>

\* The Payment rows of an order (payments.order_id is unique)
PR_payments_of(order_id) ==
    {p \in DOMAIN payments : payments[p].order_id = order_id}

\* main.authorize_payment lines 193-200: every exception that leaves
\* PaymentService.authorize_payment becomes HTTPException(502); get_db
\* rolls the session back.
PR_authorize_raised(order_id, error, retryable, calls, attempts, answers, pre_status) ==
    /\ resp' = Response([op |-> "authorize_payment", order_id |-> order_id,
                         status |-> 502, error |-> error, retryable |-> retryable,
                         calls |-> calls, attempts |-> attempts,
                         answers |-> answers, pre_status |-> pre_status])
    /\ auth' = AuthIdle
    /\ UNCHANGED <<products, customers, orders, payments, idempotency_records,
                   audit_logs, gateway>>

\* POST /api/orders/{order_id}/authorize-payment arrives:
\* PaymentService.authorize_payment lines 110-118, up to the gateway call.
\* The flush of the new Payment fails on payments.order_id when the order
\* has one already.
PR_authorize_payment(order_id) ==
    /\ Delivered
    /\ auth.pc = "idle"
    /\ IF order_id \notin DOMAIN orders
       THEN PR_authorize_raised(order_id, "ResourceNotFound", FALSE, 0, 1, <<>>, "NONE")
       ELSE IF PR_payments_of(order_id) # {}
       THEN PR_authorize_raised(order_id, "IntegrityError", FALSE, 0, 1, <<>>,
                                orders[order_id].status)
       ELSE /\ auth' = [AuthIdle EXCEPT !.pc = "calling", !.order_id = order_id,
                                        !.attempt = 1, !.calls = 1,
                                        !.pre_status = orders[order_id].status]
            /\ UNCHANGED <<products, customers, orders, payments,
                           idempotency_records, audit_logs, gateway, resp>>

\* The gateway answers 2xx: lines 121-129, Payment.authorize and
\* OrderEntity.mark_as_paid (no status check); get_db commits.
PR_gateway_authorized ==
    /\ Delivered
    /\ auth.pc = "calling"
    /\ gateway' = [gateway EXCEPT !.next = @ + 1, !.held = @ \cup {gateway.next}]
    /\ payments' = Append(payments, [order_id |-> auth.order_id,
                                     amount |-> orders[auth.order_id].total,
                                     status |-> "AUTHORIZED",
                                     external_authorization_id |-> gateway.next,
                                     retry_attempts |-> 0])
    /\ orders' = [orders EXCEPT ![auth.order_id].status = "PAID"]
    /\ resp' = Response([op |-> "authorize_payment", order_id |-> auth.order_id,
                         status |-> 200, calls |-> auth.calls,
                         attempts |-> auth.attempt,
                         answers |-> Append(auth.answers, "2xx"),
                         pre_status |-> auth.pre_status, payment_writes |-> 1])
    /\ auth' = AuthIdle
    /\ UNCHANGED <<products, customers, idempotency_records, audit_logs>>

\* tenacity on authorize_payment: retry_if_exception_type(PaymentException),
\* stop_after_attempt(2)
PR_retry(attempt) == attempt < PR_max_attempts

\* The gateway answers 4xx or 5xx or the call times out: lines 131-156 fail
\* the flushed Payment and raise PaymentException, which tenacity retries
\* whatever its retryable flag.
PR_gateway_failed(answer) ==
    /\ Delivered
    /\ auth.pc = "calling"
    /\ IF PR_retry(auth.attempt)
       THEN /\ auth' = [auth EXCEPT !.pc = "backoff", !.retryable = answer # "4xx",
                                    !.answers = Append(@, answer)]
            /\ UNCHANGED <<products, customers, orders, payments,
                           idempotency_records, audit_logs, gateway, resp>>
       ELSE PR_authorize_raised(auth.order_id, "PaymentException", answer # "4xx",
                                auth.calls, auth.attempt,
                                Append(auth.answers, answer), auth.pre_status)

\* wait_fixed(1) is over and authorize_payment runs again on the same
\* session: the flush of its new Payment violates payments.order_id, the
\* failed Payment of the first run being flushed there, and IntegrityError
\* leaves the retry loop.
PR_authorize_retry ==
    /\ Delivered
    /\ auth.pc = "backoff"
    /\ PR_authorize_raised(auth.order_id, "IntegrityError", FALSE, auth.calls,
                           auth.attempt + 1, auth.answers, auth.pre_status)

RECURSIVE PR_restore_stock(_, _)
\* cancel_order lines 373-376
PR_restore_stock(prods, items) ==
    IF items = <<>> THEN prods
    ELSE PR_restore_stock(
             [prods EXCEPT ![Head(items).product_sku].stock_quantity =
                               @ + Head(items).quantity],
             Tail(items))

\* OrderEntity.can_be_cancelled
PR_can_be_cancelled(order) == order.status \in {"PENDING", "PAID"}

\* cancel_order lines 381-389 and get_db's commit.  voided: the payment
\* PaymentService.void_payment voided, 0 when it was not called.
PR_cancel_commit(order_id, voided) ==
    /\ products' = PR_restore_stock(products, orders[order_id].items)
    /\ payments' = IF voided # 0
                   THEN [payments EXCEPT ![voided].status = "VOIDED"]
                   ELSE payments
    /\ gateway' = IF voided # 0
                  THEN [gateway EXCEPT
                          !.held = @ \ {payments[voided].external_authorization_id},
                          !.voided = @ \cup {payments[voided].external_authorization_id}]
                  ELSE gateway
    /\ orders' = [orders EXCEPT ![order_id].status = "CANCELLED"]
    /\ audit_logs' = Append(audit_logs, [entity_type |-> "ORDER",
                                         entity_id |-> order_id,
                                         action |-> "CANCEL"])
    /\ resp' = Response([op |-> "cancel_order", order_id |-> order_id,
                         status |-> 200,
                         answers |-> IF voided # 0 THEN <<"200">> ELSE <<>>,
                         pre_status |-> orders[order_id].status,
                         body |-> PR_from_order([orders[order_id] EXCEPT
                                                   !.status = "CANCELLED"], order_id),
                         payment_writes |-> IF voided # 0 THEN 1 ELSE 0])
    /\ auth' = AuthIdle
    /\ UNCHANGED <<customers, idempotency_records>>

\* POST /api/orders/{order_id}/cancel arrives: OrderService.cancel_order up
\* to the call of the gateway's void endpoint
PR_cancel_order(order_id) ==
    /\ Delivered
    /\ auth.pc = "idle"
    /\ IF order_id \notin DOMAIN orders
       THEN /\ resp' = Response([op |-> "cancel_order", order_id |-> order_id,
                                 status |-> 404, error |-> "ResourceNotFound"])
            /\ UNCHANGED <<products, customers, orders, payments,
                           idempotency_records, audit_logs, gateway, auth>>
       ELSE IF ~PR_can_be_cancelled(orders[order_id])
       THEN /\ resp' = Response([op |-> "cancel_order", order_id |-> order_id,
                                 status |-> 400, error |-> "BusinessValidation",
                                 pre_status |-> orders[order_id].status])
            /\ UNCHANGED <<products, customers, orders, payments,
                           idempotency_records, audit_logs, gateway, auth>>
       ELSE LET authorized == {p \in PR_payments_of(order_id) :
                                  payments[p].status = "AUTHORIZED"} IN
            IF authorized = {}
            THEN PR_cancel_commit(order_id, 0)
            ELSE /\ auth' = [AuthIdle EXCEPT
                               !.pc = "voiding", !.order_id = order_id,
                               !.payment = CHOOSE p \in authorized : TRUE,
                               !.calls = 1,
                               !.pre_status = orders[order_id].status]
                 /\ UNCHANGED <<products, customers, orders, payments,
                                idempotency_records, audit_logs, gateway, resp>>

\* The void endpoint answers: void_payment lines 194-201.  Anything but a
\* 2xx raises PaymentException(retryable=False): 400, rolled back.
PR_void_answered(answer) ==
    /\ Delivered
    /\ auth.pc = "voiding"
    /\ IF answer = "200"
       THEN PR_cancel_commit(auth.order_id, auth.payment)
       ELSE /\ resp' = Response([op |-> "cancel_order", order_id |-> auth.order_id,
                                 status |-> 400, error |-> "PaymentException",
                                 answers |-> <<answer>>,
                                 pre_status |-> auth.pre_status])
            /\ auth' = AuthIdle
            /\ UNCHANGED <<products, customers, orders, payments,
                           idempotency_records, audit_logs, gateway>>

InitPR ==
    /\ products = PR_seed
    /\ customers = {}
    /\ orders = <<>>
    /\ payments = <<>>
    /\ idempotency_records = {}
    /\ audit_logs = <<>>
    /\ gateway = NoGateway
    /\ auth = AuthIdle
    /\ resp = NoResponse

NextPR ==
    \/ \E request \in PR_Requests, email \in Emails,
          idempotency_key \in Keys \cup {NoKey} :
          PR_create_order(request, email, idempotency_key)
    \/ \E order_id \in 1..MaxOrders + 1 : PR_authorize_payment(order_id)
    \/ PR_gateway_authorized
    \/ \E answer \in {"4xx", "5xx", "timeout"} : PR_gateway_failed(answer)
    \/ PR_authorize_retry
    \/ \E order_id \in 1..MaxOrders + 1 : PR_cancel_order(order_id)
    \/ \E answer \in {"200", "500", "error"} : PR_void_answered(answer)
    \/ send_response

SpecPR == InitPR /\ [][NextPR]_vars

(***************************************************************************)
(* Properties of python-fastapi-rewrite                                    *)
(***************************************************************************)

\* C27: authorize-payment reports each failure kind with its own status:
\* 404 when the order does not exist, 400 or 402 on a terminal (4xx)
\* rejection by the gateway, and 502 or 503 only when the retries are
\* exhausted on 5xx answers or timeouts.
C27_AuthorizeFailureStatus ==
    resp.op = "authorize_payment"
    => /\ resp.order_id \notin DOMAIN orders => resp.status = 404
       /\ (resp.answers # <<>> /\ resp.answers[Len(resp.answers)] = "4xx")
          => resp.status \in {400, 402}
       /\ resp.status \in {502, 503}
          => /\ resp.calls = PR_max_attempts
             /\ \A i \in DOMAIN resp.answers : resp.answers[i] \in {"5xx", "timeout"}
(***************************************************************************)
(* fastapi_legacyshop: InventoryService.replenish_inventory                *)
(*                                                                         *)
(* The job reads the active products at or below the low-stock threshold   *)
(* one page at a time, restocks the page and commits before it reads the   *)
(* next page.  The query has no ORDER BY: a page is any page_size rows of  *)
(* the matching ones past the offset.  Here auth holds the position of     *)
(* the job, the products that were low when it started and how often each  *)
(* product was restocked.                                                  *)
(***************************************************************************)

\* settings.inventory, with the values of app/config.py
low_stock_threshold == 10
default_restock_quantity == 50

\* page_size = 50, scaled
page_size == 2
MaxProducts == 5

INV_Products == 1..MaxProducts

\* The filter of the query, lines 22-29
INV_low_stock(prods) ==
    {id \in DOMAIN prods :
        prods[id].active /\ prods[id].stock_quantity <= low_stock_threshold}

\* .offset(offset).limit(page_size).all(): the pages the query can return
INV_pages(prods, offset) ==
    LET matching == INV_low_stock(prods)
        n == IF Cardinality(matching) - offset > page_size THEN page_size
             ELSE IF Cardinality(matching) > offset
                  THEN Cardinality(matching) - offset
                  ELSE 0
    IN {rows \in SUBSET matching : Cardinality(rows) = n}

\* Product.increment_stock on every product of the page, lines 38-47
INV_restock(prods, rows) ==
    [id \in DOMAIN prods |->
        IF id \in rows
        THEN [prods[id] EXCEPT !.stock_quantity = @ + default_restock_quantity]
        ELSE prods[id]]

RECURSIVE INV_create_audit_logs(_)
\* _create_audit_log for every product of the page, lines 43-48
INV_create_audit_logs(rows) ==
    IF rows = {} THEN <<>>
    ELSE LET id == CHOOSE r \in rows : \A q \in rows : r <= q IN
         <<[entity_type |-> "Product", entity_id |-> id,
            action |-> "INVENTORY_REPLENISHMENT"]>>
             \o INV_create_audit_logs(rows \ {id})

\* The scheduler calls replenish_inventory: lines 16-18
INV_replenish_inventory ==
    /\ auth.pc = "idle"
    /\ auth' = [auth EXCEPT !.pc = "paging", !.page = 0,
                            !.low_at_start = INV_low_stock(products)]
    /\ UNCHANGED <<products, customers, orders, payments, idempotency_records,
                   audit_logs, gateway, resp>>

\* One turn of the loop, lines 20-58: the query of the page, the restock of
\* its products with their audit logs, commit, page += 1; an empty page
\* ends the job.
INV_replenish_page ==
    /\ auth.pc = "paging"
    /\ \E low_stock_products \in INV_pages(products, auth.page * page_size) :
          IF low_stock_products = {}
          THEN /\ auth' = [auth EXCEPT !.pc = "done"]
               /\ UNCHANGED <<products, audit_logs>>
          ELSE /\ products' = INV_restock(products, low_stock_products)
               /\ audit_logs' = audit_logs \o INV_create_audit_logs(low_stock_products)
               /\ auth' = [auth EXCEPT
                             !.page = @ + 1,
                             !.restocked = [id \in INV_Products |->
                                              IF id \in low_stock_products
                                              THEN @[id] + 1 ELSE @[id]]]
    /\ UNCHANGED <<customers, orders, payments, idempotency_records, gateway, resp>>

InitReplenish ==
    /\ products \in [INV_Products ->
                        [stock_quantity : {low_stock_threshold, low_stock_threshold + 1},
                         active : BOOLEAN]]
    /\ customers = {}
    /\ orders = <<>>
    /\ payments = <<>>
    /\ idempotency_records = {}
    /\ audit_logs = <<>>
    /\ gateway = NoGateway
    /\ auth = [pc |-> "idle", page |-> 0, low_at_start |-> {},
               restocked |-> [id \in INV_Products |-> 0]]
    /\ resp = NoResponse

NextReplenish ==
    \/ INV_replenish_inventory
    \/ INV_replenish_page

SpecReplenish == InitReplenish /\ [][NextReplenish]_vars

\* C34: when replenish_inventory finishes, every active product whose stock
\* was at or below the low-stock threshold when it started has been
\* restocked exactly once, however many such products there are.
C34_EveryLowProductRestockedOnce ==
    auth.pc = "done"
    => \A id \in auth.low_at_start : auth.restocked[id] = 1
(***************************************************************************)
(* fastapi_legacyshop: LoyaltyService.process_loyalty_points               *)
(*                                                                         *)
(* The job walks the PAID orders updated within the last hour.  For an     *)
(* order without a loyalty record it adds the points to the customer and   *)
(* commits, then adds the audit log and the record and commits again.      *)
(* Here customers maps an email to its loyalty_points, idempotency_records *)
(* holds the order ids with a loyalty record, and auth holds the position  *)
(* of the job, the orders it has still to visit, the number of runs        *)
(* started and how often the points of each order were added.              *)
(***************************************************************************)

\* settings.loyalty, with the values of app/config.py
LOYALTY_POINTS_PER_DOLLAR == 1
LOYALTY_MAX_POINTS == 500

MaxRuns == 2

\* Order totals in cents: below one dollar, ten dollars, three hundred dollars
LOY_Totals == {50, 1000, 30000}

\* _calculate_loyalty_points: ROUND_DOWN to whole points
LOY_calculate_loyalty_points(order_total) ==
    (order_total * LOYALTY_POINTS_PER_DOLLAR) \div 100

\* Customer.add_loyalty_points
LOY_add_loyalty_points(loyalty_points, points, max_points) ==
    IF loyalty_points + points < max_points THEN loyalty_points + points
    ELSE max_points

\* process_loyalty_points lines 19-30: the query of the PAID orders
LOY_process_loyalty_points ==
    /\ auth.pc = "idle"
    /\ auth.runs < MaxRuns
    /\ auth' = [auth EXCEPT !.pc = "running", !.runs = @ + 1,
                            !.paid_orders = {id \in DOMAIN orders :
                                                orders[id].status = "PAID"}]
    /\ UNCHANGED <<products, customers, orders, payments, idempotency_records,
                   audit_logs, gateway, resp>>

\* _process_order_loyalty_points lines 36-53 for the next order of the
\* loop: the lookup of the record, the points, the first commit
LOY_process_order_loyalty_points(order_id) ==
    /\ auth.pc = "running"
    /\ order_id \in auth.paid_orders
    /\ \A other \in auth.paid_orders : order_id <= other
    /\ LET points_to_award == LOY_calculate_loyalty_points(orders[order_id].total)
           customer == orders[order_id].customer
       IN
       IF order_id \in idempotency_records \/ points_to_award = 0
       THEN /\ auth' = [auth EXCEPT !.paid_orders = @ \ {order_id}]
            /\ UNCHANGED customers
       ELSE /\ customers' = [customers EXCEPT
                                ![customer] = LOY_add_loyalty_points(
                                                  @, points_to_award,
                                                  LOYALTY_MAX_POINTS)]
            /\ auth' = [auth EXCEPT !.pc = "awarded", !.order_id = order_id,
                                    !.awards[order_id] = @ + 1]
    /\ UNCHANGED <<products, orders, payments, idempotency_records, audit_logs,
                   gateway, resp>>

\* lines 55-70: the audit log and the IdempotencyRecord, second commit
LOY_record ==
    /\ auth.pc = "awarded"
    /\ idempotency_records' = idempotency_records \cup {auth.order_id}
    /\ audit_logs' = Append(audit_logs, [entity_type |-> "Customer",
                                         entity_id |-> orders[auth.order_id].customer,
                                         action |-> "LOYALTY_POINTS_AWARDED"])
    /\ auth' = [auth EXCEPT !.pc = "running", !.order_id = 0,
                            !.paid_orders = @ \ {auth.order_id}]
    /\ UNCHANGED <<products, customers, orders, payments, gateway, resp>>

\* The run fails between the two commits.  The second commit raises: lines
\* 72-79 roll back the audit log and the record, and the loop goes on to
\* the next order (the audit log of the failure is never committed).  Or
\* the process dies: the job ends there.
LOY_fail(died) ==
    /\ auth.pc = "awarded"
    /\ auth' = IF died
               THEN [auth EXCEPT !.pc = "idle", !.order_id = 0, !.paid_orders = {}]
               ELSE [auth EXCEPT !.pc = "running", !.order_id = 0,
                                 !.paid_orders = @ \ {auth.order_id}]
    /\ UNCHANGED <<products, customers, orders, payments, idempotency_records,
                   audit_logs, gateway, resp>>

\* process_loyalty_points: the loop of lines 32-33 is over
LOY_finish ==
    /\ auth.pc = "running"
    /\ auth.paid_orders = {}
    /\ auth' = [auth EXCEPT !.pc = "idle"]
    /\ UNCHANGED <<products, customers, orders, payments, idempotency_records,
                   audit_logs, gateway, resp>>

InitLoyalty ==
    /\ products = FL_seed
    /\ customers = [email \in Emails |-> 0]
    /\ orders \in [1..MaxOrders -> [customer : Emails,
                                     status : {"PENDING", "PAID"},
                                     total : LOY_Totals]]
    /\ payments = <<>>
    /\ idempotency_records = {}
    /\ audit_logs = <<>>
    /\ gateway = NoGateway
    /\ auth = [pc |-> "idle", runs |-> 0, paid_orders |-> {}, order_id |-> 0,
               awards |-> [id \in 1..MaxOrders |-> 0]]
    /\ resp = NoResponse

NextLoyalty ==
    \/ LOY_process_loyalty_points
    \/ \E order_id \in 1..MaxOrders : LOY_process_order_loyalty_points(order_id)
    \/ LOY_record
    \/ \E died \in BOOLEAN : LOY_fail(died)
    \/ LOY_finish

SpecLoyalty == InitLoyalty /\ [][NextLoyalty]_vars

\* C35: across any number of process_loyalty_points runs, runs that fail
\* between the two commits included, the points of each PAID order are
\* added to the balance of its customer at most once.
C35_PointsAddedAtMostOnce ==
    \A id \in DOMAIN orders : auth.awards[id] <= 1
(***************************************************************************)
(* legacyshop-api: OrderService.get_customer_orders                        *)
(*                                                                         *)
(* A client reads the orders of a customer page by page, page 0 first and  *)
(* on to the last page the responses announce, while no order is written.  *)
(* ORDER BY created_at DESC leaves the order of the rows of one creation   *)
(* time to the engine; SQLite returns them in the order of its scan, the   *)
(* same for every page of the query.  tie is that order, any one.  Here    *)
(* orders holds the customer and creation time of each row and auth the    *)
(* position of the client, its last response and the rows it has read.     *)
(***************************************************************************)
MaxListed == 3
MaxSize == 2
MaxTime == 2

PG_Emails == {"a@x.com", "b@x.com"}

\* The engine's orders of n rows: the bijections of 1..n
PG_Ties(n) ==
    {f \in [1..n -> 1..n] : \A a, b \in 1..n : f[a] = f[b] => a = b}

RECURSIVE LA_order_by_created_at_desc(_, _, _)
\* .order_by(Order.created_at.desc()) on the rows ids of table
LA_order_by_created_at_desc(table, ids, tie) ==
    IF ids = {} THEN <<>>
    ELSE LET first == CHOOSE id \in ids : \A other \in ids :
                          \/ table[id].created_at > table[other].created_at
                          \/ /\ table[id].created_at = table[other].created_at
                             /\ tie[id] <= tie[other]
         IN <<first>> \o LA_order_by_created_at_desc(table, ids \ {first}, tie)

\* A result that counts the last page only when it is full.
LA_total_pages_floor(total, size) == total \div size

\* get_customer_orders line 145: "totalPages"
LA_total_pages(total, size) == (total + size - 1) \div size

\* query.offset(page * size).limit(size).all()
LA_offset_limit(rows, page, size) ==
    SubSeq(rows, page * size + 1,
           IF page * size + size < Len(rows) THEN page * size + size ELSE Len(rows))

\* OrderService.get_customer_orders
LA_get_customer_orders(email, page, size) ==
    IF email \notin customers
    THEN [status |-> 404, content |-> <<>>, totalElements |-> 0, totalPages |-> 0,
          size |-> size, number |-> page]
    ELSE LET query == LA_order_by_created_at_desc(
                          orders,
                          {id \in DOMAIN orders : orders[id].customer = email},
                          auth.tie)
             total == Len(query)
         IN [status |-> 200, content |-> LA_offset_limit(query, page, size),
             totalElements |-> total, totalPages |-> LA_total_pages(total, size),
             size |-> size, number |-> page]

\* GET /api/orders/customer/{email}?page=0&size=size: the client starts
PG_first_page(email, size) ==
    /\ auth.pc = "idle"
    /\ LET page == LA_get_customer_orders(email, 0, size) IN
       auth' = [auth EXCEPT !.pc = IF page.totalPages > 1 THEN "reading" ELSE "done",
                            !.email = email, !.page = page,
                            !.seen = page.content]
    /\ UNCHANGED <<products, customers, orders, payments, idempotency_records,
                   audit_logs, gateway, resp>>

\* GET /api/orders/customer/{email}?page=number+1&size=size
PG_next_page ==
    /\ auth.pc = "reading"
    /\ LET page == LA_get_customer_orders(auth.email, auth.page.number + 1,
                                          auth.page.size) IN
       auth' = [auth EXCEPT !.pc = IF page.number + 1 < page.totalPages
                                   THEN "reading" ELSE "done",
                            !.page = page,
                            !.seen = @ \o page.content]
    /\ UNCHANGED <<products, customers, orders, payments, idempotency_records,
                   audit_logs, gateway, resp>>

InitPages ==
    /\ products = LA_init_db
    /\ \E n \in 1..MaxListed :
          /\ orders \in [1..n -> [customer : PG_Emails, created_at : 1..MaxTime]]
          /\ \E tie \in PG_Ties(n) :
                auth = [pc |-> "idle", email |-> "none", tie |-> tie, seen |-> <<>>,
                        page |-> [status |-> 0, content |-> <<>>, totalElements |-> 0,
                                  totalPages |-> 0, size |-> 0, number |-> 0]]
    /\ customers = {orders[id].customer : id \in DOMAIN orders}
    /\ payments = <<>>
    /\ idempotency_records = {}
    /\ audit_logs = <<>>
    /\ gateway = NoGateway
    /\ resp = NoResponse

NextPages ==
    \/ \E email \in PG_Emails, size \in 1..MaxSize : PG_first_page(email, size)
    \/ PG_next_page

SpecPages == InitPages /\ [][NextPages]_vars

\* The orders of the customer the client asked for
PG_customer_orders == {id \in DOMAIN orders : orders[id].customer = auth.email}

\* ceil(n / s)
PG_ceil(n, s) == IF n % s = 0 THEN n \div s ELSE n \div s + 1

====
